---------------------------- MODULE Spec2Model ----------------------------
(***************************************************************************)
(* Problem-instance generation of mathprob (package mathtools).            *)
(*                                                                         *)
(* Every generator is a method  generateJSONProblem  of a validated record *)
(* (basicOperation, division, sequence, multiplicationTable,               *)
(* mysteryOperation).  A call is modelled by its position  pc : the        *)
(* feasibility check, each iteration of a rejection-sampling loop and the  *)
(* final masking are the steps.  Every draw of the random source is a      *)
(* nondeterministic choice over all the values the draw can produce.       *)
(*                                                                         *)
(* Tokens (Go strings) are sequences of one-character strings, so that     *)
(* formatting a number and parsing it back are computed, not assumed.      *)
(* Go slices are 0-based: At(s, i) reads s[i] of the Go source.            *)
(***************************************************************************)
EXTENDS Integers, Sequences, FiniteSets, TLC

VARIABLES
    pc,        \* position of the call: "start", "sample", ..., "done", "error", "panic"
    rec,       \* the record held by the caller
    recv,      \* the receiver: the callee's copy of the record (value receiver)
    err,       \* the error returned ("nil" when none)
    ret,       \* the problemJSON returned
    solution,  \* local slice solution
    result,    \* basicOperation: local result
    pos,       \* basicOperation, sequence: local pos
    operand1,  \* mysteryOperation: local operand1
    operand2,  \* mysteryOperation: local operand2
    answer,    \* mysteryOperation: local answer
    masked1,   \* mysteryOperation: local slice masked1
    masked2,   \* mysteryOperation: local slice masked2
    maskedanswer, \* mysteryOperation: local slice maskedanswer
    gj,        \* the frame of GenerateJSON: its argument, loop variables and results
    picture    \* GetTikZPicture: the elements of the picture, in the order of emission

\* the locals of mysteryOperation.generateJSONProblem
moLocals == <<operand1, operand2, answer, masked1, masked2, maskedanswer>>

vars == <<pc, rec, recv, err, ret, solution, result, pos, moLocals, gj, picture>>

-----------------------------------------------------------------------------
(* Bounds of the model                                                     *)

MaxDrawnDigits == 3   \* basicOperation: nboperands * nbdigitsop, the digits one draw produces
MaxDigitsRslt == 3    \* basicOperation.nbdigitsrslt in 0..MaxDigitsRslt
MaxDivDrawnDigits == 3 \* division: nbdvdigits + nbdrdigits, the digits one draw produces
MaxQDigits == 3       \* division.nbqdigits in 0..MaxQDigits
MaxItems == 4         \* sequence.nbitems in 0..MaxItems
MaxSeqBound == 4      \* sequence.geq, sequence.leq at most MaxSeqBound
SeqBelowZero == 1     \* sequence.geq, sequence.leq at least -SeqBelowZero
MaxMtDigits == 1      \* multiplicationTable.nbdigits in 0..MaxMtDigits
MaxMtRows == 2        \* multiplicationTable: rows of the tables that take every option
MaxShuffleSwaps == 1  \* rand.Shuffle: the steps that draw freely
MaxMoDrawnDigits == 2 \* mysteryOperation: nbdigits1 + nbdigits2, the digits one draw produces
MaxMoAnswerDigits == 2 \* mysteryOperation.nbdigitsanswer in 0..MaxMoAnswerDigits
MaxMoMasked == 1      \* mysteryOperation: nbmasked1, nbmasked2, nbmaskedanswer in 0..MaxMoMasked
MaxRandNDigits == 3   \* helpers.RandN: the argument is at most MaxRandNDigits
RandNBelowOne == 2    \* helpers.RandN: the argument is at least -RandNBelowOne
MaxNbDigitsArg == 1100 \* helpers.NbDigits: the argument lies in -MaxNbDigitsArg..MaxNbDigitsArg
MaxWideDigits == 17   \* helpers.NbDigits: arguments next to 10^e for e in 10..MaxWideDigits
MaxMoWideDigits == 3  \* mysteryOperation: nbdigits1 + nbdigits2 of the records of MOWideRecords
MaxGJProblems == 2    \* GenerateJSON: master problems in the slice
MaxGJInstances == 2   \* GenerateJSON: instances requested, the sum of nbprobs

-----------------------------------------------------------------------------
(* Go values                                                               *)

\* Go slice indexing, 0-based
At(s, i) == s[i + 1]

\* true when index i is within the bounds of slice s
InRange(s, i) == i >= 0 /\ i < Len(s)

\* make([]string, n): n empty strings
MakeStrings(n) == [i \in 1..n |-> <<>>]

\* the masking marker "?"
QMark == <<"?">>

\* problemJSON{}
EmptyProblem == [Probtype |-> "", Id |-> 0, Args |-> <<>>, Solution |-> <<>>]

DigitChars == <<"0", "1", "2", "3", "4", "5", "6", "7", "8", "9">>

IsDigitChar(c) == c \in {"0", "1", "2", "3", "4", "5", "6", "7", "8", "9"}

DigitValue(c) ==
    CASE c = "0" -> 0 [] c = "1" -> 1 [] c = "2" -> 2 [] c = "3" -> 3 [] c = "4" -> 4
      [] c = "5" -> 5 [] c = "6" -> 6 [] c = "7" -> 7 [] c = "8" -> 8 [] c = "9" -> 9

\* decimal digits of a natural number, most significant first
RECURSIVE FormatNat(_)
FormatNat(n) ==
    IF n < 10 THEN <<DigitChars[n + 1]>>
    ELSE Append(FormatNat(n \div 10), DigitChars[(n % 10) + 1])

\* fmt.Sprintf("%v", n) and strconv.FormatInt(int64(n), 10) of an int
FormatInt(n) == IF n < 0 THEN <<"-">> \o FormatNat(0 - n) ELSE FormatNat(n)

\* value of a sequence of digit characters
RECURSIVE ParseDigits(_, _, _)
ParseDigits(s, from, to) ==
    IF to < from THEN 0 ELSE 10 * ParseDigits(s, from, to - 1) + DigitValue(s[to])

\* strconv.Atoi accepts an optional sign followed by at least one digit
AtoiOk(s) ==
    LET from == IF Len(s) > 0 /\ s[1] \in {"+", "-"} THEN 2 ELSE 1
    IN  Len(s) >= from /\ \A i \in from..Len(s) : IsDigitChar(s[i])

\* helpers.Atoi of a string; the value is 0 when the string is no number
Atoi(s) ==
    IF ~AtoiOk(s) THEN 0
    ELSE IF s[1] = "-" THEN 0 - ParseDigits(s, 2, Len(s))
    ELSE IF s[1] = "+" THEN ParseDigits(s, 2, Len(s))
    ELSE ParseDigits(s, 1, Len(s))

\* int(math.Log10(float64(n))) for n >= 1
RECURSIVE IntLog10(_)
IntLog10(n) == IF n < 10 THEN 0 ELSE 1 + IntLog10(n \div 10)

\* helpers.NbDigits
NbDigits(n) ==
    IF n = 0 THEN 1
    ELSE IF n < 0 THEN 2 + IntLog10(0 - n)
    ELSE 1 + IntLog10(n)

\* int(math.Pow(10, e)): the conversion truncates 10^e < 1 to 0
RECURSIVE IntPow10(_)
IntPow10(e) == IF e < 0 THEN 0 ELSE IF e = 0 THEN 1 ELSE 10 * IntPow10(e - 1)

\* int(math.Pow(10, e) - 1): the conversion truncates a value in (-1, 0) to 0
IntPow10Minus1(e) == IF e < 0 THEN 0 ELSE IntPow10(e) - 1

\* Go's integer division truncates towards zero (b # 0)
GoDiv(a, b) ==
    IF (a >= 0) = (b > 0)
    THEN (IF a >= 0 THEN a ELSE 0 - a) \div (IF b >= 0 THEN b ELSE 0 - b)
    ELSE 0 - ((IF a >= 0 THEN a ELSE 0 - a) \div (IF b >= 0 THEN b ELSE 0 - b))

\* the values of rand.Int() % n for n # 0: rand.Int() is non-negative and the
\* remainder takes the sign of the dividend
RandMod(n) == IF n > 0 THEN 0..(n - 1) ELSE 0..((0 - n) - 1)

\* helpers.RandN panics (integer divide by zero) when upper = lower
RandNPanics(n) == IntPow10(n) - IntPow10(n - 1) = 0

\* the values of helpers.RandN(n)
RandN(n) ==
    LET lower == IntPow10(n - 1)
        upper == IntPow10(n)
    IN  {lower + v : v \in RandMod(upper - lower)}

-----------------------------------------------------------------------------
(* basicOperation                                                          *)

BORESULT == 0
BOOPERAND == 1

Operators == {"+", "-", "*", "/"}

BORecords ==
    {bo \in [kind : {"BasicOperation"}, botype : {BORESULT, BOOPERAND},
             operator : Operators, nboperands : 0..MaxDrawnDigits,
             nbdigitsop : 0..MaxDrawnDigits, nbdigitsrslt : 0..MaxDigitsRslt] :
        bo.nboperands * bo.nbdigitsop <= MaxDrawnDigits}

\* mutant of BOInfeasibleSum: the lower bound of the result is not checked
BOInfeasibleSum_NoLower(k, d, r) == NbDigits(k * IntPow10Minus1(d)) < r

\* the guard of case "+"
BOInfeasibleSum(k, d, r) ==
    \/ NbDigits(k * IntPow10Minus1(d)) < r
    \/ NbDigits(k * IntPow10(d - 1)) > r

\* the guard of case "-"
BOInfeasibleSub(k, d, r) ==
    \/ NbDigits((k - 1) * IntPow10(1 + d)) < r
    \/ 1 > r

\* the guard of case "*"
BOInfeasibleMul(k, d, r) ==
    \/ k * d < r
    \/ 1 + k * (d - 1) > r

\* the two guards of case "/"
BOInfeasibleDiv(k, d, r) ==
    \/ k > 2
    \/ r # 1

\* the switch on bo.operator that opens generateJSONProblem
BOInfeasible(bo) ==
    LET k == bo.nboperands
        d == bo.nbdigitsop
        r == bo.nbdigitsrslt
    IN  CASE bo.operator = "+" -> BOInfeasibleSum(k, d, r)
          [] bo.operator = "-" -> BOInfeasibleSub(k, d, r)
          [] bo.operator = "*" -> BOInfeasibleMul(k, d, r)
          [] bo.operator = "/" -> BOInfeasibleDiv(k, d, r)
          [] OTHER -> FALSE

\* mutant of BOLoopCond: the digits of the result are not tested
BOLoopCond_NoDigits(res, r) == res <= 0

\* the condition of the rejection-sampling loop
BOLoopCond(res, r) == NbDigits(res) # r \/ res <= 0

\* one application of the operator; dividing by 0 panics
BOApply(op, acc, value) ==
    CASE op = "+" -> [ok |-> TRUE, val |-> acc + value]
      [] op = "-" -> [ok |-> TRUE, val |-> acc - value]
      [] op = "*" -> [ok |-> TRUE, val |-> acc * value]
      [] op = "/" -> IF value = 0 THEN [ok |-> FALSE, val |-> 0]
                     ELSE [ok |-> TRUE, val |-> GoDiv(acc, value)]
      [] OTHER -> [ok |-> TRUE, val |-> acc]

\* the inner loop  for i := 1; i < nboperands; i++  over solution[1+i]
RECURSIVE BOFoldFrom(_, _, _, _, _)
BOFoldFrom(op, sol, i, k, acc) ==
    IF i >= k THEN [ok |-> TRUE, val |-> acc]
    ELSE LET step == BOApply(op, acc, Atoi(At(sol, 1 + i)))
         IN  IF ~step.ok THEN step ELSE BOFoldFrom(op, sol, i + 1, k, step.val)

\* result, _ = Atoi(solution[1]) followed by the inner loop
BOFold(op, sol, k) == BOFoldFrom(op, sol, 1, k, Atoi(At(sol, 1)))

\* the operands of one draw written into solution[1..k]
BOWriteOperands(sol, ops, k) ==
    SubSeq(sol, 1, 1) \o [i \in 1..k |-> FormatInt(ops[i])] \o SubSeq(sol, k + 2, Len(sol))

\* mutant of BOMask: the position of the masked operand is off by one
BOMask_OffByOne(sol, botype, p, k) ==
    IF botype = BOOPERAND
    THEN [i \in 1..Len(sol) |-> IF i = p THEN QMark ELSE sol[i]]
    ELSE [i \in 1..Len(sol) |-> IF i - 1 = 1 + k THEN QMark ELSE sol[i]]

\* args: a copy of solution with one token replaced by "?"
BOMask(sol, botype, p, k) ==
    IF botype = BOOPERAND
    THEN [i \in 1..Len(sol) |-> IF i - 1 = p THEN QMark ELSE sol[i]]
    ELSE [i \in 1..Len(sol) |-> IF i - 1 = 1 + k THEN QMark ELSE sol[i]]

Panic ==
    /\ pc' = "panic"
    /\ UNCHANGED <<rec, recv, err, ret, solution, result, pos, moLocals, gj, picture>>

\* the tuples of operands one iteration of the loop can draw
BODraws(bo) == [1..bo.nboperands -> RandN(bo.nbdigitsop)]

\* the slice and the result one iteration computes from the operands it drew
BOIteration(bo, sol, ops) ==
    LET written == BOWriteOperands(sol, ops, bo.nboperands)
    IN  [solution |-> written, res |-> BOFold(bo.operator, written, bo.nboperands)]

\* generateJSONProblem up to the loop: feasibility check, choice of pos,
\* allocation of solution
BOFeasibility ==
    /\ pc = "start"
    /\ rec.kind = "BasicOperation"
    /\ IF BOInfeasible(recv)
       THEN /\ pc' = "error"
            /\ err' = "infeasible"
            /\ ret' = EmptyProblem
            /\ UNCHANGED <<rec, recv, solution, result, pos, moLocals, gj, picture>>
       ELSE IF recv.nboperands = 0 \/ 2 + recv.nboperands < 1
       THEN Panic
       ELSE /\ \E p \in RandMod(recv.nboperands) : pos' = 1 + p
            /\ solution' = [MakeStrings(2 + recv.nboperands) EXCEPT ![1] = <<recv.operator>>]
            /\ pc' = "sample"
            /\ UNCHANGED <<rec, recv, err, ret, result, moLocals, gj, picture>>

\* an iteration of the loop that panics: no operand to read, RandN dividing
\* by zero, or the operator dividing by a zero operand
BOSamplePanic ==
    /\ pc = "sample"
    /\ rec.kind = "BasicOperation"
    /\ \/ recv.nboperands < 1
       \/ RandNPanics(recv.nbdigitsop)
       \/ /\ recv.operator = "/"
          /\ ~ \A ops \in BODraws(recv) : BOIteration(recv, solution, ops).res.ok
    /\ Panic

\* an iteration of the loop whose result fails the test of the loop: the
\* loop goes on.  What the iteration wrote (solution[1..k], result) is
\* overwritten by the next iteration before it is read, so the step leaves
\* the state of the model as it is.
BOReject ==
    /\ pc = "sample"
    /\ rec.kind = "BasicOperation"
    /\ recv.nboperands >= 1
    /\ ~RandNPanics(recv.nbdigitsop)
    /\ ~ \A ops \in BODraws(recv) :
            LET it == BOIteration(recv, solution, ops)
            IN  it.res.ok => ~BOLoopCond(it.res.val, recv.nbdigitsrslt)
    /\ UNCHANGED vars

\* the last iteration of the loop and the rest of generateJSONProblem: the
\* result passes the test, it is written to solution, args is masked and the
\* instance is returned
BOAccept ==
    /\ pc = "sample"
    /\ rec.kind = "BasicOperation"
    /\ recv.nboperands >= 1
    /\ ~RandNPanics(recv.nbdigitsop)
    /\ \E ops \in BODraws(recv) :
          LET it == BOIteration(recv, solution, ops)
              sol == [it.solution EXCEPT ![2 + recv.nboperands] = FormatInt(it.res.val)]
          IN  /\ it.res.ok
              /\ ~BOLoopCond(it.res.val, recv.nbdigitsrslt)
              /\ result' = it.res.val
              /\ solution' = sol
              /\ ret' = [Probtype |-> "BasicOperation", Id |-> 0,
                         Args |-> BOMask(sol, recv.botype, pos, recv.nboperands),
                         Solution |-> sol]
    /\ err' = "nil"
    /\ pc' = "done"
    /\ UNCHANGED <<rec, recv, pos, moLocals, gj, picture>>

-----------------------------------------------------------------------------
(* division                                                                *)

DivRecords ==
    {div \in [kind : {"Division"}, nbdvdigits : 0..MaxDivDrawnDigits,
              nbdrdigits : 0..MaxDivDrawnDigits, nbqdigits : 0..MaxQDigits] :
        div.nbdvdigits + div.nbdrdigits <= MaxDivDrawnDigits}

\* mutant of DivClamp: the lower bound of the quotient is off by one
DivClamp_LowerOffByOne(div) ==
    LET low == IF div.nbqdigits < div.nbdvdigits - div.nbdrdigits + 1
               THEN [div EXCEPT !.nbqdigits = div.nbdvdigits - div.nbdrdigits + 1]
               ELSE div
    IN  IF low.nbqdigits > low.nbdvdigits - low.nbdrdigits + 1
        THEN [low EXCEPT !.nbqdigits = low.nbdvdigits - low.nbdrdigits + 1]
        ELSE low

\* the two corrections of div.nbqdigits that open generateJSONProblem; they
\* act on the receiver, which is the callee's copy
DivClamp(div) ==
    LET low == IF div.nbqdigits < div.nbdvdigits - div.nbdrdigits
               THEN [div EXCEPT !.nbqdigits = div.nbdvdigits - div.nbdrdigits]
               ELSE div
    IN  IF low.nbqdigits > low.nbdvdigits - low.nbdrdigits + 1
        THEN [low EXCEPT !.nbqdigits = low.nbdvdigits - low.nbdrdigits + 1]
        ELSE low

\* the condition of the sampling loop
DivLoopCond(quotient, q) == NbDigits(quotient) # q \/ quotient = 0

\* mutant of DivSolution: the remainder forgets the divisor
DivSolution_BadRemainder(dividend, divisor, quotient) ==
    <<FormatInt(dividend), FormatInt(divisor), FormatInt(quotient),
      FormatInt(dividend - quotient)>>

\* solution[0..3]: dividend, divisor, quotient and remainder
DivSolution(dividend, divisor, quotient) ==
    <<FormatInt(dividend), FormatInt(divisor), FormatInt(quotient),
      FormatInt(dividend - divisor * quotient)>>

\* args[0..3]: quotient and remainder are masked
DivArgs(sol) == <<At(sol, 0), At(sol, 1), QMark, QMark>>

\* the pairs (dividend, divisor) one iteration of the loop can draw
DivDraws(div) == RandN(div.nbdvdigits) \X RandN(div.nbdrdigits)

\* generateJSONProblem up to the loop: the quotient digits are corrected, the
\* slices are allocated
DivFeasibility ==
    /\ pc = "start"
    /\ rec.kind = "Division"
    /\ recv' = DivClamp(recv)
    /\ solution' = MakeStrings(4)
    /\ pc' = "sample"
    /\ UNCHANGED <<rec, err, ret, result, pos, moLocals, gj, picture>>

\* an iteration that panics: RandN dividing by zero, or a zero divisor
DivSamplePanic ==
    /\ pc = "sample"
    /\ rec.kind = "Division"
    /\ \/ RandNPanics(recv.nbdvdigits)
       \/ RandNPanics(recv.nbdrdigits)
       \/ ~ \A d \in DivDraws(recv) : d[2] # 0
    /\ Panic

\* an iteration whose quotient fails the test of the loop; what it wrote
\* (dividend, divisor, quotient) is overwritten by the next iteration
DivReject ==
    /\ pc = "sample"
    /\ rec.kind = "Division"
    /\ ~RandNPanics(recv.nbdvdigits)
    /\ ~RandNPanics(recv.nbdrdigits)
    /\ ~ \A d \in DivDraws(recv) :
            d[2] # 0 => ~DivLoopCond(GoDiv(d[1], d[2]), recv.nbqdigits)
    /\ UNCHANGED vars

\* the last iteration and the rest of generateJSONProblem
DivAccept ==
    /\ pc = "sample"
    /\ rec.kind = "Division"
    /\ ~RandNPanics(recv.nbdvdigits)
    /\ ~RandNPanics(recv.nbdrdigits)
    /\ \E d \in DivDraws(recv) :
          /\ d[2] # 0
          /\ LET quotient == GoDiv(d[1], d[2])
                 sol == DivSolution(d[1], d[2], quotient)
             IN  /\ ~DivLoopCond(quotient, recv.nbqdigits)
                 /\ result' = quotient
                 /\ solution' = sol
                 /\ ret' = [Probtype |-> "Division", Id |-> 0, Args |-> DivArgs(sol),
                            Solution |-> sol]
    /\ err' = "nil"
    /\ pc' = "done"
    /\ UNCHANGED <<rec, recv, pos, moLocals, gj, picture>>

-----------------------------------------------------------------------------
(* sequence                                                                *)

SEQNONE == 0
SEQFIRST == 1
SEQLAST == 2
SEQBOTH == 3

SeqRecords ==
    [kind : {"Sequence"}, seqtype : {SEQNONE, SEQFIRST, SEQLAST, SEQBOTH},
     nbitems : 0..MaxItems, geq : (0 - SeqBelowZero)..MaxSeqBound,
     leq : (0 - SeqBelowZero)..MaxSeqBound]

\* the feasibility test: the interval is too narrow for nbitems
SeqInfeasible(seq) == 1 + seq.leq - seq.geq < seq.nbitems

\* mutant of SeqFirstModulus: the number of items is forgotten
SeqFirstModulus_NoItems(seq) == 2 + seq.leq - seq.geq

\* the modulus of the draw of number1
SeqFirstModulus(seq) == 2 + seq.leq - seq.nbitems - seq.geq

\* the modulus of the draw of pos and the offset added to it
SeqPosModulus(seq) == IF seq.nbitems <= 2 THEN seq.nbitems ELSE seq.nbitems - 2

SeqPosOffset(seq) == IF seq.nbitems <= 2 THEN 0 ELSE 1

\* the switch on idx: cases 0, pos, nbitems-1 are tried in this order
SeqArg(seq, p, idx, sol) ==
    IF idx = 0
    THEN (IF seq.seqtype = SEQNONE \/ seq.seqtype = SEQLAST THEN QMark ELSE At(sol, 0))
    ELSE IF idx = p
    THEN (IF seq.seqtype = SEQNONE THEN At(sol, p) ELSE QMark)
    ELSE IF idx = seq.nbitems - 1
    THEN (IF seq.seqtype = SEQNONE \/ seq.seqtype = SEQFIRST THEN QMark ELSE At(sol, idx))
    ELSE QMark

\* solution: the run of nbitems numbers from number1
SeqSolution(seq, number1) == [i \in 1..seq.nbitems |-> FormatInt(number1 + i - 1)]

\* sequence.generateJSONProblem
SeqGenerate ==
    /\ pc = "start"
    /\ rec.kind = "Sequence"
    /\ IF SeqInfeasible(recv)
       THEN /\ pc' = "error"
            /\ err' = "infeasible"
            /\ ret' = EmptyProblem
            /\ UNCHANGED <<rec, recv, solution, result, pos, moLocals, gj, picture>>
       ELSE IF SeqFirstModulus(recv) = 0 \/ SeqPosModulus(recv) = 0 \/ recv.nbitems < 0
       THEN Panic
       ELSE \E r1 \in RandMod(SeqFirstModulus(recv)), r2 \in RandMod(SeqPosModulus(recv)) :
               LET number1 == recv.geq + r1
                   p == SeqPosOffset(recv) + r2
                   sol == SeqSolution(recv, number1)
               IN  /\ pos' = p
                   /\ solution' = sol
                   /\ ret' = [Probtype |-> "Sequence", Id |-> 0,
                              Args |-> [i \in 1..recv.nbitems |-> SeqArg(recv, p, i - 1, sol)],
                              Solution |-> sol]
                   /\ err' = "nil"
                   /\ pc' = "done"
                   /\ UNCHANGED <<rec, recv, result, moLocals, gj, picture>>

-----------------------------------------------------------------------------
(* multiplicationTable                                                     *)

MTRESULT == 0
MTOPERAND == 1

\* the number of rows the shuffle of generateJSONProblem works on
ShuffledRows == 10

\* the bounds verifyMultiplicationTableDict gives a table by default
DefaultGeq == 1
DefaultLeq == 10

\* tables of at most MaxMtRows rows with every combination of the options, and
\* the table of the default bounds, shown in the regular order
MTRecords ==
    {mt \in [kind : {"MultiplicationTable"}, mttype : {MTRESULT, MTOPERAND},
             nbdigits : 0..MaxMtDigits, geq : 0..MaxMtRows, leq : (0 - 2)..(2 * MaxMtRows),
             inv : BOOLEAN, sorted : BOOLEAN] :
        1 + mt.leq - mt.geq >= 0 - 1 /\ 1 + mt.leq - mt.geq <= MaxMtRows}
    \cup [kind : {"MultiplicationTable"}, mttype : {MTRESULT}, nbdigits : 0..MaxMtDigits,
          geq : {DefaultGeq}, leq : {DefaultLeq}, inv : {FALSE}, sorted : BOOLEAN]

\* the number of rows of the table
MTNbRows(mt) == 1 + mt.leq - mt.geq

\* the outcomes of the test  rand.Int()%100 < 50
Coin == {b \in BOOLEAN : \E v \in RandMod(100) : (v < 50) = b}

\* the outcomes of the tests of one loop over the rows; a loop that does not
\* draw has one outcome
CoinsOfRows(n, drawn) == IF drawn THEN [0..(n - 1) -> Coin] ELSE {[i \in 0..(n - 1) |-> FALSE]}

\* mutant of MTFilledToken: the multiplier is the index of the row
MTFilledToken_RowIndex(mt, factor, swaps, idx) ==
    IF idx = 0 THEN FormatInt(factor)
    ELSE LET row == (idx - 1) \div 3
             col == (idx - 1) % 3
             i == row
             swapped == mt.inv /\ swaps[row]
         IN  CASE col = 0 -> IF swapped THEN FormatInt(i) ELSE FormatInt(factor)
               [] col = 1 -> IF swapped THEN FormatInt(factor) ELSE FormatInt(i)
               [] col = 2 -> FormatInt(factor * i)

\* the token at index idx of the table filled in by the loop over the rows
MTFilledToken(mt, factor, swaps, idx) ==
    IF idx = 0 THEN FormatInt(factor)
    ELSE LET row == (idx - 1) \div 3
             col == (idx - 1) % 3
             i == mt.geq + row
             swapped == mt.inv /\ swaps[row]
         IN  CASE col = 0 -> IF swapped THEN FormatInt(i) ELSE FormatInt(factor)
               [] col = 1 -> IF swapped THEN FormatInt(factor) ELSE FormatInt(i)
               [] col = 2 -> FormatInt(factor * i)

\* solution after the loop over the rows
MTFill(mt, factor, swaps) ==
    [j \in 1..(1 + MTNbRows(mt) * 3) |-> MTFilledToken(mt, factor, swaps, j - 1)]

\* identity with the items at i and j exchanged
SwapItems(identity, i, j) ==
    [identity EXCEPT ![i + 1] = identity[j + 1], ![j + 1] = identity[i + 1]]

\* rand.Shuffle: for i from n-1 down to 1 the items at i and at a drawn
\* j in 0..i are exchanged; the first  free  steps draw any j, the steps after
\* them draw j = i
RECURSIVE ShuffleFrom(_, _, _)
ShuffleFrom(identity, i, free) ==
    IF i <= 0 THEN {identity}
    ELSE UNION {ShuffleFrom(SwapItems(identity, i, j), i - 1, IF free > 0 THEN free - 1 ELSE 0) :
                   j \in IF free > 0 THEN 0..i ELSE {i}}

\* the orders of the rows the shuffle can draw
MTShuffles == ShuffleFrom([i \in 1..ShuffledRows |-> i - 1], ShuffledRows - 1, MaxShuffleSwaps)

\* the loop that re-orders the rows indexes a solution of len tokens out of
\* range
MTShufflePanics(len, identity) ==
    \E i \in 0..(ShuffledRows - 1) :
        \/ 3 + i * 3 >= len
        \/ 3 + At(identity, i) * 3 >= len

\* solution after the rows have been re-ordered as identity says
MTReorder(sol, identity) ==
    [j \in 1..Len(sol) |->
        LET idx == j - 1
            row == (idx - 1) \div 3
            col == (idx - 1) % 3
        IN  IF idx >= 1 /\ row < ShuffledRows
            THEN At(sol, 1 + col + At(identity, row) * 3)
            ELSE sol[j]]

\* mutant of MTArgs: the first factor shown is the factor of the table
MTArgs_FactorShown(mt, sol, flips) ==
    [j \in 1..Len(sol) |->
        LET idx == j - 1
            row == (idx - 1) \div 3
            col == (idx - 1) % 3
        IN  IF idx = 0 THEN At(sol, 0)
            ELSE IF mt.mttype = MTRESULT
            THEN (IF col = 2 THEN QMark ELSE IF col = 0 THEN At(sol, 0) ELSE sol[j])
            ELSE IF flips[row]
            THEN (IF col = 0 THEN QMark ELSE sol[j])
            ELSE (IF col = 1 THEN QMark ELSE IF col = 0 THEN At(sol, 0) ELSE sol[j])]

\* mutant of MTArgs: a row that masks its first factor keeps the mask put on
\* its second factor
MTArgs_BothFactors(mt, sol, flips) ==
    [j \in 1..Len(sol) |->
        LET idx == j - 1
            row == (idx - 1) \div 3
            col == (idx - 1) % 3
        IN  IF idx = 0 THEN At(sol, 0)
            ELSE IF mt.mttype = MTRESULT
            THEN (IF col = 2 THEN QMark ELSE sol[j])
            ELSE IF flips[row]
            THEN (IF col = 0 \/ col = 1 THEN QMark ELSE sol[j])
            ELSE (IF col = 1 THEN QMark ELSE sol[j])]

\* args: the factor, and every row of solution with one token masked
MTArgs(mt, sol, flips) ==
    [j \in 1..Len(sol) |->
        LET idx == j - 1
            row == (idx - 1) \div 3
            col == (idx - 1) % 3
        IN  IF idx = 0 THEN At(sol, 0)
            ELSE IF mt.mttype = MTRESULT
            THEN (IF col = 2 THEN QMark ELSE sol[j])
            ELSE IF flips[row]
            THEN (IF col = 0 THEN QMark ELSE sol[j])
            ELSE (IF col = 1 THEN QMark ELSE sol[j])]

\* multiplicationTable.generateJSONProblem
MTGenerate ==
    /\ pc = "start"
    /\ rec.kind = "MultiplicationTable"
    /\ LET len == 1 + MTNbRows(recv) * 3
       IN  \/ /\ \/ RandNPanics(recv.nbdigits)
                 \/ len < 0
                 \/ ~recv.sorted /\ ~ \A identity \in MTShuffles : ~MTShufflePanics(len, identity)
              /\ Panic
           \/ /\ ~RandNPanics(recv.nbdigits)
              /\ len >= 0
              /\ \E factor \in RandN(recv.nbdigits),
                    swaps \in CoinsOfRows(MTNbRows(recv), recv.inv),
                    identity \in IF recv.sorted THEN {<<>>} ELSE MTShuffles,
                    flips \in CoinsOfRows(MTNbRows(recv), recv.mttype # MTRESULT) :
                    LET filled == MTFill(recv, factor, swaps)
                        sol == IF recv.sorted THEN filled ELSE MTReorder(filled, identity)
                    IN  /\ IF recv.sorted THEN TRUE ELSE ~MTShufflePanics(len, identity)
                        /\ solution' = sol
                        /\ ret' = [Probtype |-> "MultiplicationTable", Id |-> 0,
                                   Args |-> MTArgs(recv, sol, flips),
                                   Solution |-> sol]
              /\ err' = "nil"
              /\ pc' = "done"
              /\ UNCHANGED <<rec, recv, result, pos, moLocals, gj, picture>>

-----------------------------------------------------------------------------
(* mysteryOperation                                                        *)

MORecords ==
    {mo \in [kind : {"MysteryOperation"}, operator : Operators,
             nbdigits1 : 0..MaxMoDrawnDigits, nbdigits2 : 0..MaxMoDrawnDigits,
             nbmasked1 : 0..MaxMoMasked, nbmasked2 : 0..MaxMoMasked,
             nbdigitsanswer : 0..MaxMoAnswerDigits, nbmaskedanswer : 0..MaxMoMasked] :
        mo.nbdigits1 + mo.nbdigits2 <= MaxMoDrawnDigits}

\* the records of three drawn digits: every field has a digit or more and one
\* masked position
MOWideRecords ==
    {mo \in [kind : {"MysteryOperation"}, operator : Operators,
             nbdigits1 : 1..MaxMoWideDigits, nbdigits2 : 1..MaxMoWideDigits,
             nbmasked1 : {1}, nbmasked2 : {1},
             nbdigitsanswer : 1..MaxMoWideDigits, nbmaskedanswer : {1}] :
        mo.nbdigits1 + mo.nbdigits2 <= MaxMoWideDigits}

\* int(helpers.Max(float64(a), float64(b)))
Max(a, b) == IF a < b THEN b ELSE a

\* helpers.Min
Min(a, b) == IF a < b THEN a ELSE b

\* helpers.FindInt: the item is in the container
FindInt(item, container) == \E i \in 1..Len(container) : container[i] = item

\* the three tests on the masked digits and the switch on mo.operator
MOInfeasible(mo) ==
    \/ mo.nbmasked1 > mo.nbdigits1
    \/ mo.nbmasked2 > mo.nbdigits2
    \/ mo.nbmaskedanswer > mo.nbdigitsanswer
    \/ CASE mo.operator = "+" ->
               \/ mo.nbdigitsanswer < Max(mo.nbdigits1, mo.nbdigits2)
               \/ mo.nbdigitsanswer > 1 + Max(mo.nbdigits1, mo.nbdigits2)
         [] mo.operator = "-" ->
               \/ mo.nbdigitsanswer < 1
               \/ mo.nbdigitsanswer > Max(mo.nbdigits1, mo.nbdigits2)
         [] mo.operator = "*" ->
               \/ mo.nbdigitsanswer < mo.nbdigits1 + mo.nbdigits2 - 1
               \/ mo.nbdigitsanswer > mo.nbdigits1 + mo.nbdigits2
         [] mo.operator = "/" ->
               \/ mo.nbdigitsanswer < 1
               \/ mo.nbdigitsanswer >
                      Max(mo.nbdigits1, mo.nbdigits2) - Min(mo.nbdigits1, mo.nbdigits2)
         [] OTHER -> FALSE

\* the strings of n characters drawn from digits
MODigitStrings(n) == [1..n -> {DigitChars[i] : i \in 1..10}]

\* the pairs (operand1, operand2) one iteration of the loop can draw
MODraws(mo) == MODigitStrings(mo.nbdigits1) \X MODigitStrings(mo.nbdigits2)

\* the iteration is abandoned by  continue
MOContinue(mo, op1, op2) == (mo.operator = "-" \/ mo.operator = "/") /\ op2 > op1

\* the switch that computes answer; dividing by 0 panics
MOAnswer(mo, op1, op2) ==
    CASE mo.operator = "+" -> [ok |-> TRUE, val |-> FormatInt(op1 + op2)]
      [] mo.operator = "-" -> [ok |-> TRUE, val |-> FormatInt(op1 - op2)]
      [] mo.operator = "*" -> [ok |-> TRUE, val |-> FormatInt(op1 * op2)]
      [] mo.operator = "/" -> IF op2 = 0 THEN [ok |-> FALSE, val |-> <<>>]
                              ELSE [ok |-> TRUE, val |-> FormatInt(GoDiv(op1, op2))]
      [] OTHER -> [ok |-> TRUE, val |-> <<>>]

\* what one iteration of the loop does with the operands it drew
MOIteration(mo, d) ==
    LET op1 == Atoi(d[1])
        op2 == Atoi(d[2])
    IN  IF MOContinue(mo, op1, op2) THEN [outcome |-> "continue", answer |-> <<>>]
        ELSE LET a == MOAnswer(mo, op1, op2)
             IN  IF ~a.ok THEN [outcome |-> "panic", answer |-> <<>>]
                 ELSE IF Len(a.val) = mo.nbdigitsanswer
                 THEN [outcome |-> "break", answer |-> a.val]
                 ELSE [outcome |-> "again", answer |-> a.val]

\* helpers.Atoi of a byte of a string: the type switch has no case for it, so
\* the value returned is 0
AtoiOfByte(c) == 0

\* solution: operator, the three numbers of digits, and one token for every
\* digit of operand1, operand2 and answer
MOSolution(mo, op1str, op2str, ans) ==
    [j \in 1..(4 + mo.nbdigits1 + mo.nbdigits2 + mo.nbdigitsanswer) |->
        LET i == j - 1
        IN  CASE i = 0 -> <<mo.operator>>
              [] i = 1 -> FormatInt(mo.nbdigits1)
              [] i = 2 -> FormatInt(mo.nbdigits2)
              [] i = 3 -> FormatInt(mo.nbdigitsanswer)
              [] i >= 4 /\ i < 4 + Len(op1str) -> FormatInt(AtoiOfByte(At(op1str, i - 4)))
              [] i >= 4 + Len(op1str) /\ i < 4 + Len(op1str) + Len(op2str) ->
                     FormatInt(AtoiOfByte(At(op2str, i - 4 - Len(op1str))))
              [] OTHER ->
                     FormatInt(AtoiOfByte(At(ans, i - 4 - Len(op1str) - Len(op2str))))]

\* args: solution with the positions of masked1, masked2 and maskedanswer
\* replaced by "?"
MOArgs(sol, op1str, op2str, m1, m2, ma) ==
    [j \in 1..Len(sol) |->
        LET i == j - 1
        IN  IF i >= 4 /\ i < 4 + Len(op1str) /\ FindInt(i - 4, m1)
            THEN QMark
            ELSE IF i >= 4 + Len(op1str) /\ i < 4 + Len(op1str) + Len(op2str)
                    /\ FindInt(i - 4 - Len(op1str), m2)
            THEN QMark
            ELSE IF i >= 4 + Len(op1str) + Len(op2str)
                    /\ FindInt(i - 4 - Len(op1str) - Len(op2str), ma)
            THEN QMark
            ELSE sol[j]]

\* the slice of masked positions after one iteration that drew idx
MOMasked(masked, idx) == IF FindInt(idx, masked) THEN masked ELSE Append(masked, idx)

\* generateJSONProblem up to the sampling loop: the checks
MOFeasibility ==
    /\ pc = "start"
    /\ rec.kind = "MysteryOperation"
    /\ IF MOInfeasible(recv)
       THEN /\ pc' = "error"
            /\ err' = "infeasible"
            /\ ret' = EmptyProblem
            /\ UNCHANGED <<rec, recv, solution, result, pos, moLocals, gj, picture>>
       ELSE /\ pc' = "sample"
            /\ UNCHANGED <<rec, recv, err, ret, solution, result, pos, moLocals, gj, picture>>

\* an iteration of the sampling loop that divides by zero
MOSamplePanic ==
    /\ pc = "sample"
    /\ rec.kind = "MysteryOperation"
    /\ recv.operator = "/"
    /\ ~ \A d \in MODraws(recv) : MOIteration(recv, d).outcome # "panic"
    /\ Panic

\* an iteration of the sampling loop that is abandoned or whose answer has
\* not the digits asked for: the loop goes on, and what the iteration wrote
\* (operand1, operand2, answer) is overwritten before it is read
MOSampleReject ==
    /\ pc = "sample"
    /\ rec.kind = "MysteryOperation"
    /\ ~ \A d \in MODraws(recv) : MOIteration(recv, d).outcome \notin {"continue", "again"}
    /\ UNCHANGED vars

\* the iteration that leaves the sampling loop, and the construction of
\* solution
MOSampleAccept ==
    /\ pc = "sample"
    /\ rec.kind = "MysteryOperation"
    /\ \E d \in MODraws(recv) :
          LET it == MOIteration(recv, d)
          IN  /\ it.outcome = "break"
              /\ operand1' = d[1]
              /\ operand2' = d[2]
              /\ answer' = it.answer
              /\ solution' = MOSolution(recv, d[1], d[2], it.answer)
    /\ pc' = "mask1"
    /\ UNCHANGED <<rec, recv, err, ret, result, pos, masked1, masked2, maskedanswer, gj, picture>>

\* one iteration of the loop that fills masked1; rand.Intn panics when its
\* argument is not positive
MOMask1 ==
    /\ pc = "mask1"
    /\ IF recv.nbdigits1 <= 0
       THEN Panic
       ELSE \E idx \in 0..(recv.nbdigits1 - 1) :
               /\ masked1' = MOMasked(masked1, idx)
               /\ pc' = IF Len(masked1') = recv.nbmasked1 THEN "mask2" ELSE "mask1"
               /\ UNCHANGED <<rec, recv, err, ret, solution, result, pos,
                              operand1, operand2, answer, masked2, maskedanswer, gj, picture>>

\* one iteration of the loop that fills masked2
MOMask2 ==
    /\ pc = "mask2"
    /\ IF recv.nbdigits2 <= 0
       THEN Panic
       ELSE \E idx \in 0..(recv.nbdigits2 - 1) :
               /\ masked2' = MOMasked(masked2, idx)
               /\ pc' = IF Len(masked2') = recv.nbmasked2 THEN "maskanswer" ELSE "mask2"
               /\ UNCHANGED <<rec, recv, err, ret, solution, result, pos,
                              operand1, operand2, answer, masked1, maskedanswer, gj, picture>>

\* one iteration of the loop that fills maskedanswer; the last one is
\* followed by the construction of args and the return
MOMaskAnswer ==
    /\ pc = "maskanswer"
    /\ IF recv.nbdigitsanswer <= 0
       THEN Panic
       ELSE \E idx \in 0..(recv.nbdigitsanswer - 1) :
               /\ maskedanswer' = MOMasked(maskedanswer, idx)
               /\ IF Len(maskedanswer') = recv.nbmaskedanswer
                  THEN /\ ret' = [Probtype |-> "MysteryOperation", Id |-> 0,
                                  Args |-> MOArgs(solution, operand1, operand2,
                                                  masked1, masked2, maskedanswer'),
                                  Solution |-> solution]
                       /\ err' = "nil"
                       /\ pc' = "done"
                  ELSE /\ pc' = "maskanswer"
                       /\ UNCHANGED <<err, ret>>
               /\ UNCHANGED <<rec, recv, solution, result, pos,
                              operand1, operand2, answer, masked1, masked2, gj, picture>>

-----------------------------------------------------------------------------
(* the validators of the dictionaries                                      *)

\* the values of a map[string]interface{}: dict[key] of an absent key is the
\* nil interface; a float64 is kept in tenths (num = 45 stands for 4.5); a
\* string is kept as its characters
NilV == [type |-> "nil", num |-> 0, str |-> <<>>, bool |-> FALSE]
IntV(n) == [type |-> "int", num |-> n, str |-> <<>>, bool |-> FALSE]
FloatV(tenths) == [type |-> "float64", num |-> tenths, str |-> <<>>, bool |-> FALSE]
StrV(s) == [type |-> "string", num |-> 0, str |-> s, bool |-> FALSE]
BoolV(b) == [type |-> "bool", num |-> 0, str |-> <<>>, bool |-> b]

\* _, ok := dict[key]
HasKey(dict, key) == dict[key].type # "nil"

\* helpers.Find: the item is in the container
Find(item, container) == \E i \in 1..Len(container) : container[i] = item

\* helpers.Atoi of an interface value: the error is not nil
AtoiErr(v) ==
    CASE v.type = "int" -> FALSE
      [] v.type = "float64" -> FALSE
      [] v.type = "string" -> ~AtoiOk(v.str)
      [] OTHER -> TRUE

\* helpers.Atoi of an interface value: the integer returned; int(value)
\* truncates a float towards zero
AtoiInt(v) ==
    CASE v.type = "int" -> v.num
      [] v.type = "float64" -> GoDiv(v.num, 10)
      [] v.type = "string" -> Atoi(v.str)
      [] OTHER -> 0

\* the values tried under a key read as a number, as the operator and as a
\* flag; NilV leaves the key out of the dictionary
NumberValues == {NilV, IntV(1), FloatV(45), StrV(<<"2">>), StrV(<<"+">>)}
OperatorValues == {NilV, StrV(<<"+">>), StrV(<<"2">>), IntV(1)}
FlagValues == {NilV, BoolV(TRUE), BoolV(FALSE), StrV(<<"2">>)}

\* the index of the first key of mandatory[from..] that dict lacks, 0 when no
\* key is missing
RECURSIVE FirstMissing(_, _, _)
FirstMissing(dict, mandatory, from) ==
    IF from > Len(mandatory) THEN 0
    ELSE IF ~HasKey(dict, mandatory[from]) THEN from
    ELSE FirstMissing(dict, mandatory, from + 1)

\* what a validator does: it returns an instance and a nil error, it returns
\* the zero record and an error, or log.Fatalf ends the process
VerifyReturns(instance) == [pc |-> "done", ret |-> instance, err |-> <<>>]
VerifyFails(zero, error) == [pc |-> "error", ret |-> zero, err |-> error]
VerifyFatal == [pc |-> "fatal", ret |-> [kind |-> "none"], err |-> <<>>]

\* basicOperation{}, division{}, multiplicationTable{} and sequence{}
ZeroBasicOperation ==
    [kind |-> "BasicOperation", botype |-> 0, operator |-> "", nboperands |-> 0,
     nbdigitsop |-> 0, nbdigitsrslt |-> 0]
ZeroDivision == [kind |-> "Division", nbdvdigits |-> 0, nbdrdigits |-> 0, nbqdigits |-> 0]
ZeroMultiplicationTable ==
    [kind |-> "MultiplicationTable", mttype |-> 0, nbdigits |-> 0, geq |-> 0, leq |-> 0,
     inv |-> FALSE, sorted |-> FALSE]
ZeroSequence == [kind |-> "Sequence", seqtype |-> 0, nbitems |-> 0, geq |-> 0, leq |-> 0]

verifyBasicOperationDict(dict) ==
    LET mandatory == <<"type", "operator", "nboperands", "nbdigitsop", "nbdigitsrslt">>
        missing == FirstMissing(dict, mandatory, 1)
        botype == AtoiInt(dict["type"])
    IN  IF missing # 0
        THEN VerifyFails(ZeroBasicOperation, <<"Mandatory key not found", mandatory[missing]>>)
        ELSE IF dict["operator"].type # "string"
        THEN VerifyFails(ZeroBasicOperation, <<"The operator should be given as a string">>)
        ELSE IF ~Find(dict["operator"].str, <<<<"+">>, <<"-">>, <<"*">>, <<"/">>>>)
        THEN VerifyFails(ZeroBasicOperation, <<"The operator has to be one of + - * /">>)
        ELSE IF AtoiErr(dict["type"])
        THEN VerifyFails(ZeroBasicOperation, <<"the type should be given as an integer">>)
        ELSE IF AtoiErr(dict["nboperands"])
        THEN VerifyFails(ZeroBasicOperation,
                         <<"the number of operands should be given as an integer">>)
        ELSE IF AtoiErr(dict["nbdigitsop"])
        THEN VerifyFails(ZeroBasicOperation,
                         <<"the number of digits of all operands should be given as an integer">>)
        ELSE IF AtoiErr(dict["nbdigitsrslt"])
        THEN VerifyFails(ZeroBasicOperation,
                         <<"the number of digits of the result should be given as a string">>)
        ELSE IF botype < BORESULT \/ botype > BOOPERAND
        THEN VerifyFails(ZeroBasicOperation, <<"the type given is incorrect">>)
        ELSE VerifyReturns([kind |-> "BasicOperation", botype |-> botype,
                            operator |-> dict["operator"].str[1],
                            nboperands |-> AtoiInt(dict["nboperands"]),
                            nbdigitsop |-> AtoiInt(dict["nbdigitsop"]),
                            nbdigitsrslt |-> AtoiInt(dict["nbdigitsrslt"])])

verifyDivisionDict(dict) ==
    LET mandatory == <<"nbdvdigits", "nbdrdigits", "nbqdigits">>
        missing == FirstMissing(dict, mandatory, 1)
    IN  IF missing # 0
        THEN VerifyFatal
        ELSE IF AtoiErr(dict["nbdvdigits"])
        THEN VerifyFails(ZeroDivision,
                         <<"the number of digits of the dividend should be given as a integer">>)
        ELSE IF AtoiErr(dict["nbdrdigits"])
        THEN VerifyFails(ZeroDivision,
                         <<"the number of digits of the divisor should be given as an integer">>)
        ELSE IF AtoiErr(dict["nbqdigits"])
        THEN VerifyFails(ZeroDivision,
                         <<"the number of digits of the quotient should be given as an integer">>)
        ELSE VerifyReturns([kind |-> "Division",
                            nbdvdigits |-> AtoiInt(dict["nbdvdigits"]),
                            nbdrdigits |-> AtoiInt(dict["nbdrdigits"]),
                            nbqdigits |-> AtoiInt(dict["nbqdigits"])])

\* the keys "inv" and "sorted" are not read: the record gets false and true
verifyMultiplicationTableDict(dict) ==
    LET mandatory == <<"type", "nbdigits">>
        missing == FirstMissing(dict, mandatory, 1)
        mttype == AtoiInt(dict["type"])
        geq == IF HasKey(dict, "geq") THEN AtoiInt(dict["geq"]) ELSE DefaultGeq
        leq == IF HasKey(dict, "leq") THEN AtoiInt(dict["leq"]) ELSE DefaultLeq
    IN  IF missing # 0
        THEN VerifyFails(ZeroMultiplicationTable,
                         <<"Mandatory key not found", mandatory[missing]>>)
        ELSE IF AtoiErr(dict["type"])
        THEN VerifyFails(ZeroMultiplicationTable, <<"the type should be given as an integer">>)
        ELSE IF AtoiErr(dict["nbdigits"])
        THEN VerifyFails(ZeroMultiplicationTable,
                         <<"the number of digits of the factor should be given as an integer">>)
        ELSE IF HasKey(dict, "geq") /\ AtoiErr(dict["geq"])
        THEN VerifyFails(ZeroMultiplicationTable,
                         <<"the lower bound should be given as an integer">>)
        ELSE IF HasKey(dict, "leq") /\ AtoiErr(dict["leq"])
        THEN VerifyFails(ZeroMultiplicationTable,
                         <<"the upper bound should be given as an integer">>)
        ELSE IF mttype < MTRESULT \/ mttype > MTOPERAND
        THEN VerifyFails(ZeroMultiplicationTable, <<"the type given is incorrect">>)
        ELSE VerifyReturns([kind |-> "MultiplicationTable", mttype |-> mttype,
                            nbdigits |-> AtoiInt(dict["nbdigits"]),
                            geq |-> geq, leq |-> leq, inv |-> FALSE, sorted |-> TRUE])

verifySequenceDict(dict) ==
    LET mandatory == <<"type", "nbitems", "geq", "leq">>
        missing == FirstMissing(dict, mandatory, 1)
        seqtype == AtoiInt(dict["type"])
    IN  IF missing # 0
        THEN VerifyFails(ZeroSequence, <<"Mandatory key not found", mandatory[missing]>>)
        ELSE IF AtoiErr(dict["type"])
        THEN VerifyFails(ZeroSequence, <<"the type should be given as an integer">>)
        ELSE IF AtoiErr(dict["nbitems"])
        THEN VerifyFails(ZeroSequence, <<"the number of items should be given as an integer">>)
        ELSE IF AtoiErr(dict["geq"])
        THEN VerifyFails(ZeroSequence, <<"the lower bound should be given as an integer">>)
        ELSE IF AtoiErr(dict["leq"])
        THEN VerifyFails(ZeroSequence, <<"the upper bound should be given as a string">>)
        ELSE IF seqtype < SEQNONE \/ seqtype > SEQBOTH
        THEN VerifyFails(ZeroSequence, <<"the type given is incorrect">>)
        ELSE VerifyReturns([kind |-> "Sequence", seqtype |-> seqtype,
                            nbitems |-> AtoiInt(dict["nbitems"]),
                            geq |-> AtoiInt(dict["geq"]), leq |-> AtoiInt(dict["leq"])])

\* the calls of the four validators: the dictionaries hold the keys the
\* validator knows, each absent or with one of the values tried
VerifyCalls ==
    {[kind |-> "verifyBasicOperationDict",
      dict |-> [type |-> t, operator |-> o, nboperands |-> k, nbdigitsop |-> d,
                nbdigitsrslt |-> r]] :
        t \in NumberValues, o \in OperatorValues, k \in NumberValues,
        d \in NumberValues, r \in NumberValues}
    \cup {[kind |-> "verifyDivisionDict",
           dict |-> [nbdvdigits |-> dv, nbdrdigits |-> dr, nbqdigits |-> q]] :
        dv \in NumberValues, dr \in NumberValues, q \in NumberValues}
    \cup {[kind |-> "verifyMultiplicationTableDict",
           dict |-> [type |-> t, nbdigits |-> d, geq |-> g, leq |-> l, inv |-> i,
                     sorted |-> s]] :
        t \in NumberValues, d \in NumberValues, g \in NumberValues, l \in NumberValues,
        i \in FlagValues, s \in FlagValues}
    \cup {[kind |-> "verifySequenceDict",
           dict |-> [type |-> t, nbitems |-> n, geq |-> g, leq |-> l]] :
        t \in NumberValues, n \in NumberValues, g \in NumberValues, l \in NumberValues}

\* the outcome out of a validator reaches its caller
VerifyEnds(out) ==
    /\ pc' = out.pc
    /\ ret' = out.ret
    /\ err' = out.err
    /\ UNCHANGED <<rec, recv, solution, result, pos, moLocals, gj, picture>>

VerifyBasicOperation ==
    /\ pc = "start"
    /\ rec.kind = "verifyBasicOperationDict"
    /\ VerifyEnds(verifyBasicOperationDict(rec.dict))

VerifyDivision ==
    /\ pc = "start"
    /\ rec.kind = "verifyDivisionDict"
    /\ VerifyEnds(verifyDivisionDict(rec.dict))

VerifyMultiplicationTable ==
    /\ pc = "start"
    /\ rec.kind = "verifyMultiplicationTableDict"
    /\ VerifyEnds(verifyMultiplicationTableDict(rec.dict))

VerifySequence ==
    /\ pc = "start"
    /\ rec.kind = "verifySequenceDict"
    /\ VerifyEnds(verifySequenceDict(rec.dict))

-----------------------------------------------------------------------------
(* GenerateJSON                                                            *)

LowerLetters ==
    <<"a", "b", "c", "d", "e", "f", "g", "h", "i", "j", "k", "l", "m",
      "n", "o", "p", "q", "r", "s", "t", "u", "v", "w", "x", "y", "z">>

UpperLetters ==
    <<"A", "B", "C", "D", "E", "F", "G", "H", "I", "J", "K", "L", "M",
      "N", "O", "P", "Q", "R", "S", "T", "U", "V", "W", "X", "Y", "Z">>

\* strings.ToUpper on a string of characters
ToUpper(s) ==
    [k \in 1..Len(s) |->
        IF \E l \in 1..26 : LowerLetters[l] = s[k]
        THEN UpperLetters[CHOOSE l \in 1..26 : LowerLetters[l] = s[k]]
        ELSE s[k]]

\* the labels of the cases of the switch on strings.ToUpper(problem.probtype)
CaseBasicOperation ==
    <<"B", "A", "S", "I", "C", "O", "P", "E", "R", "A", "T", "I", "O", "N">>
CaseDivision == <<"D", "I", "V", "I", "S", "I", "O", "N">>
CaseMultiplicationTable ==
    <<"M", "U", "L", "T", "I", "P", "L", "I", "C", "A", "T", "I", "O", "N",
      "T", "A", "B", "L", "E">>
CaseSequence == <<"S", "E", "Q", "U", "E", "N", "C", "E">>

\* the validator the switch selects for a problem type; the default case
\* selects none
GJSupported(probtype) ==
    ToUpper(probtype) \in {CaseBasicOperation, CaseDivision, CaseMultiplicationTable,
                           CaseSequence}

GJVerified(probtype, args) ==
    LET upper == ToUpper(probtype)
    IN  IF upper = CaseBasicOperation THEN verifyBasicOperationDict(args)
        ELSE IF upper = CaseDivision THEN verifyDivisionDict(args)
        ELSE IF upper = CaseMultiplicationTable THEN verifyMultiplicationTableDict(args)
        ELSE verifySequenceDict(args)

\* MasterProblem{probtype, args, nbprobs}
MasterProblem(probtype, args, nbprobs) ==
    [probtype |-> probtype, args |-> args, nbprobs |-> nbprobs]

\* dictionaries of arguments as json.Decode leaves them: numbers are float64
\* (given in tenths), NilV leaves a key out
BOArgs(t, o, k, d, r) ==
    [type |-> t, operator |-> o, nboperands |-> k, nbdigitsop |-> d, nbdigitsrslt |-> r]
DivisionArgs(dv, dr, q) == [nbdvdigits |-> dv, nbdrdigits |-> dr, nbqdigits |-> q]
MTDictArgs(t, d) ==
    [type |-> t, nbdigits |-> d, geq |-> NilV, leq |-> NilV, inv |-> NilV, sorted |-> NilV]
SeqArgs(t, n, g, l) == [type |-> t, nbitems |-> n, geq |-> g, leq |-> l]

\* the requests tried: for each problem type a dictionary that yields
\* instances, and dictionaries that the validator or the generator refuses
GJRequests ==
    {<<<<"B", "a", "s", "i", "c", "O", "p", "e", "r", "a", "t", "i", "o", "n">>, a>> :
        a \in {BOArgs(FloatV(10), StrV(<<"-">>), FloatV(20), FloatV(10), FloatV(10)),
               BOArgs(FloatV(10), NilV, FloatV(20), FloatV(10), FloatV(10)),
               BOArgs(FloatV(0), StrV(<<"/">>), FloatV(20), FloatV(10), FloatV(20)),
               BOArgs(FloatV(0), StrV(<<"/">>), FloatV(20), FloatV(0), FloatV(10))}}
    \cup {<<<<"d", "i", "v", "i", "s", "i", "o", "n">>, a>> :
        a \in {DivisionArgs(FloatV(10), FloatV(10), FloatV(10)),
               DivisionArgs(FloatV(10), FloatV(10), NilV),
               DivisionArgs(FloatV(10), StrV(<<"+">>), FloatV(10)),
               DivisionArgs(FloatV(10), FloatV(0), FloatV(10)),
               DivisionArgs(FloatV(10), FloatV(20), FloatV(10))}}
    \cup {<<<<"M", "u", "l", "t", "i", "p", "l", "i", "c", "a", "t", "i", "o", "n",
              "T", "a", "b", "l", "e">>, a>> :
        a \in {MTDictArgs(FloatV(0), FloatV(10)), MTDictArgs(FloatV(50), FloatV(10))}}
    \cup {<<<<"S", "E", "Q", "U", "E", "N", "C", "E">>, a>> :
        a \in {SeqArgs(FloatV(30), FloatV(20), FloatV(10), FloatV(20)),
               SeqArgs(FloatV(30), FloatV(30), FloatV(10), FloatV(20)),
               SeqArgs(FloatV(30), FloatV(0), FloatV(10), FloatV(20))}}
    \cup {<<<<"M", "y", "s", "t", "e", "r", "y">>, DivisionArgs(NilV, NilV, NilV)>>}

GJMasterProblems ==
    {MasterProblem(q[1], q[2], n) : q \in GJRequests, n \in 0..MaxGJInstances}

RECURSIVE GJSumNbprobs(_)
GJSumNbprobs(problems) ==
    IF problems = <<>> THEN 0 ELSE Head(problems).nbprobs + GJSumNbprobs(Tail(problems))

\* the slices of master problems GenerateJSON is called with
GJInputs ==
    {problems \in UNION {[1..n -> GJMasterProblems] : n \in 0..MaxGJProblems} :
        GJSumNbprobs(problems) <= MaxGJInstances}

\* no call of GenerateJSON
GJIdle ==
    [pc |-> "idle", problems |-> <<>>, next |-> 0, i |-> 0, jsonprobs |-> <<>>,
     data |-> <<>>, err |-> <<>>]

\* the frame of GenerateJSON(problems) at its first statement: next is the
\* index of the range loop, i the counter of the inner loop
GJFrame(problems) ==
    [pc |-> "loop", problems |-> problems, next |-> 0, i |-> 0, jsonprobs |-> <<>>,
     data |-> <<>>, err |-> <<>>]

\* return data, err  inside the loops: data is still nil
GJReturnsError(error) == gj' = [gj EXCEPT !.pc = "returned", !.err = error]

\* the frame of a generator: the locals of models of generateJSONProblem
GJCallFrame(instance) ==
    /\ rec' = instance
    /\ recv' = instance
    /\ pc' = "start"
    /\ err' = "nil"
    /\ ret' = EmptyProblem
    /\ solution' = <<>>
    /\ result' = 0
    /\ pos' = 0
    /\ UNCHANGED <<moLocals, picture>>

GJNoCall == UNCHANGED <<pc, rec, recv, err, ret, solution, result, pos, moLocals, picture>>

\* the range loop is over: json.MarshalIndent(jsonprobs, "", "\t")
GJMarshal ==
    /\ gj.pc = "loop"
    /\ gj.next >= Len(gj.problems)
    /\ gj' = [gj EXCEPT !.pc = "returned", !.data = <<"json", gj.jsonprobs>>]
    /\ GJNoCall

\* the inner loop is over: the range loop takes the next master problem
GJNextProblem ==
    /\ gj.pc = "loop"
    /\ gj.next < Len(gj.problems)
    /\ gj.i >= At(gj.problems, gj.next).nbprobs
    /\ gj' = [gj EXCEPT !.next = gj.next + 1, !.i = 0]
    /\ GJNoCall

\* the default case of the switch
GJUnsupported ==
    /\ gj.pc = "loop"
    /\ gj.next < Len(gj.problems)
    /\ gj.i < At(gj.problems, gj.next).nbprobs
    /\ ~GJSupported(At(gj.problems, gj.next).probtype)
    /\ GJReturnsError(<<"Unsupported generation of JSON problems for problem type",
                        At(gj.problems, gj.next).probtype>>)
    /\ GJNoCall

\* a case of the switch up to the call instance.generateJSONProblem(): the
\* validator returns an error, ends the process (log.Fatalf), or gives the
\* instance that is the receiver of the call
GJVerify ==
    /\ gj.pc = "loop"
    /\ gj.next < Len(gj.problems)
    /\ gj.i < At(gj.problems, gj.next).nbprobs
    /\ GJSupported(At(gj.problems, gj.next).probtype)
    /\ LET problem == At(gj.problems, gj.next)
           out == GJVerified(problem.probtype, problem.args)
       IN  IF out.pc = "fatal"
           THEN gj' = [gj EXCEPT !.pc = "exit"] /\ GJNoCall
           ELSE IF out.pc = "error"
           THEN GJReturnsError(out.err) /\ GJNoCall
           ELSE gj' = [gj EXCEPT !.pc = "call"] /\ GJCallFrame(out.ret)

\* generateJSONProblem returned an error
GJGenerateFails ==
    /\ gj.pc = "call"
    /\ pc = "error"
    /\ GJReturnsError(<<err>>)
    /\ GJNoCall

\* generateJSONProblem returned an instance: iprob.Id = i, append, i++
GJAppend ==
    /\ gj.pc = "call"
    /\ pc = "done"
    /\ gj' = [gj EXCEPT !.pc = "loop", !.i = gj.i + 1,
                        !.jsonprobs = Append(gj.jsonprobs, [ret EXCEPT !.Id = gj.i])]
    /\ GJNoCall

-----------------------------------------------------------------------------
(* GetTikZPicture                                                          *)

\* the name of a coordinate or of a node: fmt.Sprintf("op%v", ith) is
\* Label("op", ith), a name without a number has number 0
Label(name, n) == [name |-> name, n |-> n]

\* the numbers of a position, in hundredths: an absolute point (x, y) has
\* xcm and ycm, a formula adds xw \zerowidth + xcm cm to the x and
\* yh \zeroheight + yb \baselineskip + ycm cm to the y of its reference
Offset(xw, xcm, yh, yb, ycm) == [xw |-> xw, xcm |-> xcm, yh |-> yh, yb |-> yb, ycm |-> ycm]

\* components.NewCoordinate(components.Point{X, Y}, label)
NewCoordinatePoint(x, y, label) ==
    [prim |-> "coordinate", label |-> label, abs |-> TRUE, refs |-> {},
     at |-> Offset(0, x, 0, 0, y), width |-> 0, text |-> <<>>]

\* components.NewCoordinate(components.Formula("$(ref) + (...)$"), label)
NewCoordinateFormula(ref, at, label) ==
    [prim |-> "coordinate", label |-> label, abs |-> FALSE, refs |-> {ref},
     at |-> at, width |-> 0, text |-> <<>>]

\* components.NewLabeledText(options, label, text): a node at the coordinate
\* label; width is the minimum width of the options in hundredths of
\* \zerowidth, 0 when the options are empty
NewLabeledText(width, label, text) ==
    [prim |-> "node", label |-> label, abs |-> FALSE, refs |-> {label},
     at |-> Offset(0, 0, 0, 0, 0), width |-> width, text |-> text]

\* components.NewText(options, label, text) with the option
\* "right=... of ref" or "below=... of ref"
NewText(ref, width, label, text) ==
    [prim |-> "node", label |-> label, abs |-> FALSE, refs |-> {ref},
     at |-> Offset(0, 0, 0, 0, 0), width |-> width, text |-> text]

\* components.NewLine(ref0, ref1, refs...): refs are the coordinates its
\* points are given by; width is the horizontal extent, when it is computed
NewLine(refs, width) ==
    [prim |-> "line", label |-> Label("", 0), abs |-> FALSE, refs |-> refs,
     at |-> Offset(0, 0, 0, 0, 0), width |-> width, text |-> <<>>]

\* components.NewRectangle(ref0, ref1)
NewRectangle(ref0, ref1) ==
    [prim |-> "rectangle", label |-> Label("", 0), abs |-> FALSE, refs |-> {ref0, ref1},
     at |-> Offset(0, 0, 0, 0, 0), width |-> 0, text |-> <<>>]

\* mutant of NewCoordinatedRectangle: the rectangle is drawn before its
\* coordinates are emitted
NewCoordinatedRectangle_DrawnFirst(coord0, coord1) ==
    <<NewRectangle(coord0.label, coord1.label), coord0, coord1>>

\* components.NewCoordinatedRectangle(coord0, coord1) as it draws itself:
\* the two coordinates, then the rectangle between their labels
NewCoordinatedRectangle(coord0, coord1) ==
    <<coord0, coord1, NewRectangle(coord0.label, coord1.label)>>

\* the box or the number NewLabeledText is called with for an item of Args
\* in basicOperation.GetTikZPicture and sequence.GetTikZPicture
ItemText(item, nbdigits, label) ==
    IF item = QMark
    THEN NewLabeledText(100 * (2 + nbdigits), label, <<>>)
    ELSE NewLabeledText(0, label, item)

\* basicOperation.GetTikZPicture after the call of generateJSONProblem
BOPicture(bo, instance) ==
    LET nbdigits == Max(bo.nbdigitsop, bo.nbdigitsrslt)
        len == Len(instance.Args)
        ith(idx) == len - idx - 2
        bottom == NewCoordinatePoint(0, 0, Label("bottom", 0))
        answerCoord == NewCoordinateFormula(Label("bottom", 0),
                      Offset(150 + 50 * (2 + nbdigits), 0, 50, 100, 0), Label("answer", 0))
        split1 == NewCoordinateFormula(Label("answer", 0),
                      Offset(0 - (75 + 50 * (2 + nbdigits)), 0, 0, 150, 0), Label("split1", 0))
        split2 == NewCoordinateFormula(Label("answer", 0),
                      Offset(50 * (2 + nbdigits), 0, 0, 150, 0), Label("split2", 0))
        splitLine == NewLine({Label("split1", 0), Label("split2", 0)}, 0)
        coords == [k \in 1..(len - 2) |->
                      NewCoordinateFormula(Label("answer", 0),
                          Offset(0, 0, 100 * (ith(k - 1) - 1), 100 * (2 + ith(k - 1)), 0),
                          Label("op", ith(k - 1)))]
        ops == [k \in 1..(len - 2) |->
                   ItemText(At(instance.Args, k), nbdigits, Label("op", ith(k - 1)))]
        operatorCoord == NewCoordinateFormula(Label("op", 1),
                             Offset(0 - 75 - 50 * (2 + nbdigits), 0, 0, 0, 0),
                             Label("operator", 0))
        operator == NewLabeledText(0, Label("operator", 0), At(instance.Args, 0))
        right == NewCoordinateFormula(Label("split2", 0),
                     Offset(75, 0, 0, 100 * (1 + 2 * (len - 2)), 0), Label("right", 0))
        bBox == NewCoordinatedRectangle(bottom, right)
        rslt == ItemText(At(instance.Args, len - 1), nbdigits, Label("answer", 0))
    IN  <<bottom, answerCoord, split1, split2, splitLine>> \o coords \o ops
        \o <<operatorCoord, operator>> \o bBox \o <<rslt>>

\* the loop of sequence.GetTikZPicture over instance.Solution
RECURSIVE SeqNbDigits(_, _)
SeqNbDigits(sol, nbdigits) ==
    IF sol = <<>> THEN nbdigits
    ELSE SeqNbDigits(Tail(sol), Max(nbdigits, NbDigits(Atoi(Head(sol)))))

\* sequence.GetTikZPicture after the call of generateJSONProblem
SeqPicture(seq, instance) ==
    LET nbdigits == SeqNbDigits(instance.Solution, 0)
        bottom == NewCoordinatePoint(0, 0, Label("bottom", 0))
        first == NewCoordinateFormula(Label("bottom", 0),
                     Offset(100 + 50 * (2 + nbdigits), 0, 50, 150, 0), Label("first", 0))
        last == NewCoordinateFormula(Label("first", 0),
                    Offset((250 + 100 * nbdigits) * (seq.nbitems - 1), 0, 0, 0, 0),
                    Label("last", 0))
        right == NewCoordinateFormula(Label("last", 0),
                     Offset(50 * (2 + nbdigits), 0, 50, 50, 0), Label("right", 0))
        bBox == NewRectangle(Label("bottom", 0), Label("right", 0))
        coords == [k \in 1..Len(instance.Args) |->
                      NewCoordinateFormula(Label("first", 0),
                          Offset((k - 1) * (250 + 100 * nbdigits), 0, 0, 0, 0),
                          Label("cell", k - 1))]
        cells == [k \in 1..Len(instance.Args) |->
                     ItemText(instance.Args[k], nbdigits, Label("cell", k - 1))]
    IN  <<bottom, first, last, right, bBox>> \o coords \o cells

\* division.GetTikZPicture: the coordinates and boxes come from the receiver
\* div of GetTikZPicture, the operands from the instance generated
DivPicture(div, instance) ==
    LET label1 == NewCoordinatePoint(0, 100 + 200 * div.nbqdigits + 50, Label("label1", 0))
        label2 == NewCoordinateFormula(Label("label1", 0),
                      Offset(100 * (2 + div.nbdvdigits), 0, 0, 0, 0), Label("label2", 0))
        label3 == NewCoordinateFormula(Label("label2", 0),
                      Offset(50 * (2 + Max(div.nbdrdigits, div.nbqdigits)), 0, 0 - 100, 0, 0),
                      Label("label3", 0))
        line1 == NewCoordinateFormula(Label("label2", 0),
                     Offset(0 - 100 * (2 + div.nbdvdigits), 0, 0 - 200, 0, 0 - 15),
                     Label("line1", 0))
        bottom == NewCoordinateFormula(Label("line1", 0),
                      Offset(0, 0, 0 - 100 * (2 * div.nbqdigits - 1) - 50,
                             0 - 100 * (2 * div.nbqdigits - 1), 0),
                      Label("bottom", 0))
        right == NewCoordinateFormula(Label("line1", 0),
                     Offset(0, 0, 0 - 100 * (2 * div.nbqdigits - 1) - 50,
                            0 - 100 * (2 * div.nbqdigits - 1), 0),
                     Label("right", 0))
        bBox == NewCoordinatedRectangle(bottom, right)
        sBox == NewLine({Label("label2", 0)},
                        100 * (2 + Max(div.nbdrdigits, div.nbqdigits)))
        answerBox == NewText(Label("label3", 0),
                             100 * (2 + Max(div.nbdrdigits, div.nbqdigits)),
                             Label("", 0), <<>>)
        dividend == NewText(Label("label1", 0), 0, Label("dividend", 0),
                            At(instance.Solution, 0))
        divisor == NewText(Label("label2", 0), 0, Label("divisor", 0),
                           At(instance.Solution, 1))
    IN  <<label1, label2, label3, line1>> \o bBox \o <<sBox, answerBox, dividend, divisor>>

\* GetTikZPicture once generateJSONProblem has returned: an error ends the
\* process (log.Fatalf), an instance is drawn
Draws(elements) ==
    /\ IF pc = "error"
       THEN pc' = "fatal" /\ UNCHANGED picture
       ELSE pc' = "drawn" /\ picture' = elements
    /\ UNCHANGED <<rec, recv, err, ret, solution, result, pos, moLocals, gj>>

BOGetTikZPicture ==
    /\ pc \in {"done", "error"}
    /\ rec.kind = "BasicOperation"
    /\ Draws(BOPicture(rec, ret))

\* sequence.GetTikZPicture panics on an item of Solution that is no number
SeqGetTikZPicture ==
    /\ pc \in {"done", "error"}
    /\ rec.kind = "Sequence"
    /\ IF pc = "done" /\ ~ \A k \in 1..Len(ret.Solution) : AtoiOk(ret.Solution[k])
       THEN Panic
       ELSE Draws(SeqPicture(rec, ret))

DivGetTikZPicture ==
    /\ pc \in {"done", "error"}
    /\ rec.kind = "Division"
    /\ Draws(DivPicture(rec, ret))

-----------------------------------------------------------------------------
(* calls of the helpers                                                    *)

\* an int of 64 bits with magnitude below 2 * 10^18 is kept as its sign and
\* the two halves of its magnitude hi * 10^9 + lo, 0 <= lo < 10^9
WideBase == 1000000000

Wide(h, l) == [hi |-> h, lo |-> l]

WideLess(a, b) == a.hi < b.hi \/ (a.hi = b.hi /\ a.lo < b.lo)

\* a + d for a small d >= 0, and a - d for a small d, 0 <= d <= a
WidePlus(a, d) ==
    IF a.lo + d >= WideBase THEN Wide(a.hi + 1, a.lo + d - WideBase) ELSE Wide(a.hi, a.lo + d)

WideMinus(a, d) ==
    IF a.lo < d THEN Wide(a.hi - 1, a.lo + WideBase - d) ELSE Wide(a.hi, a.lo - d)

\* a mod m for a small m > 0
WideMod(a, m) == (((a.hi % m) * (WideBase % m)) + (a.lo % m)) % m

\* a + a
WideDouble(a) ==
    IF 2 * a.lo >= WideBase
    THEN Wide(2 * a.hi + 1, 2 * a.lo - WideBase)
    ELSE Wide(2 * a.hi, 2 * a.lo)

\* 2^k for k >= 53, from 2^53 = 9007199254740992
RECURSIVE WidePow2(_)
WidePow2(k) ==
    IF k <= 53 THEN Wide(9007199, 254740992) ELSE WideDouble(WidePow2(k - 1))

\* the k with 2^k <= a < 2^(k+1), searched from k upwards (a >= 2^k)
RECURSIVE WideExponent(_, _)
WideExponent(a, k) == IF WideLess(a, WidePow2(k + 1)) THEN k ELSE WideExponent(a, k + 1)

\* 2^e for a small e
RECURSIVE SmallPow2(_)
SmallPow2(e) == IF e = 0 THEN 1 ELSE 2 * SmallPow2(e - 1)

\* float64(n) of a magnitude: a float64 has 53 bits of mantissa, so a
\* magnitude of 2^53 or more is rounded to the nearest multiple of
\* ulp = 2^(k-52), ties to the even mantissa
Float64(a) ==
    IF WideLess(a, WidePow2(53)) THEN a
    ELSE LET ulp == SmallPow2(WideExponent(a, 53) - 52)
             r == WideMod(a, ulp)
             down == WideMinus(a, r)
             odd == WideMod(down, 2 * ulp) # 0
         IN  IF 2 * r < ulp \/ (2 * r = ulp /\ ~odd) THEN down ELSE WidePlus(down, ulp)

\* the integer part of the logarithm to base 10 of a magnitude x >= 1
WideFloorLog10(x) == IF x.hi > 0 THEN 9 + IntLog10(x.hi) ELSE IntLog10(x.lo)

\* math.Log10 returns a float64, and the float64 below e lies 2^-49 below it
\* for 8 < e <= 16: the logarithm of an x < 10^e, e - (10^e - x)/(10^e ln 10),
\* is nearer to e than to that float64 when 10^e - x < 10^e * ln 10 * 2^-50,
\* which is 0.2 for e = 14 and 2.04 for e = 15 (and more above)
Log10RoundFrom == 15
Log10RoundWithin == 2

\* int(math.Log10(x)) of a float64 x >= 1 that holds an integer: exact on
\* the powers of ten, and e for the x that math.Log10 rounds up to e
WideIntLog10(x) ==
    LET e == WideFloorLog10(x) + 1
    IN  IF e >= Log10RoundFrom
           /\ ~ WideLess(WidePlus(x, Log10RoundWithin), Wide(IntPow10(e - 9), 0))
        THEN e
        ELSE e - 1

\* helpers.NbDigits of the int of sign neg and magnitude a
NbDigitsWide(neg, a) ==
    IF a.hi = 0 /\ a.lo = 0 THEN 1
    ELSE IF neg THEN 2 + WideIntLog10(Float64(a))
    ELSE 1 + WideIntLog10(Float64(a))

\* the magnitudes 10^e - 2 .. 10^e + 2 for e >= 10
NextToPowerOfTen(e) ==
    {Wide(IntPow10(e - 9) - 1, WideBase - 2), Wide(IntPow10(e - 9) - 1, WideBase - 1),
     Wide(IntPow10(e - 9), 0), Wide(IntPow10(e - 9), 1), Wide(IntPow10(e - 9), 2)}

\* the calls helpers.RandN(n) and helpers.NbDigits(n); the arguments of
\* NbDigits are the small integers and the integers next to a power of ten
HelperCalls ==
    [kind : {"RandN"}, n : (0 - RandNBelowOne)..MaxRandNDigits]
    \cup {[kind |-> "NbDigits", neg |-> s, n |-> Wide(0, l)] :
              s \in BOOLEAN, l \in 0..MaxNbDigitsArg}
    \cup {[kind |-> "NbDigits", neg |-> s, n |-> a] :
              s \in BOOLEAN, a \in UNION {NextToPowerOfTen(e) : e \in 10..MaxWideDigits}}

\* helpers.RandN(rec.n): the remainder by upper - lower = 0 panics
CallRandN ==
    /\ pc = "start"
    /\ rec.kind = "RandN"
    /\ IF RandNPanics(rec.n)
       THEN Panic
       ELSE /\ result' \in RandN(rec.n)
            /\ pc' = "done"
            /\ UNCHANGED <<rec, recv, err, ret, solution, pos, moLocals, gj, picture>>

\* helpers.NbDigits(rec.n)
CallNbDigits ==
    /\ pc = "start"
    /\ rec.kind = "NbDigits"
    /\ result' = NbDigitsWide(rec.neg, rec.n)
    /\ pc' = "done"
    /\ UNCHANGED <<rec, recv, err, ret, solution, pos, moLocals, gj, picture>>

-----------------------------------------------------------------------------
(* Specifications                                                          *)

InitLocals ==
    /\ pc = "start"
    /\ recv = rec
    /\ err = "nil"
    /\ ret = EmptyProblem
    /\ solution = <<>>
    /\ result = 0
    /\ pos = 0
    /\ gj = GJIdle
    /\ picture = <<>>
    /\ operand1 = <<>>
    /\ operand2 = <<>>
    /\ answer = <<>>
    /\ masked1 = <<>>
    /\ masked2 = <<>>
    /\ maskedanswer = <<>>

InitBO == rec \in BORecords /\ InitLocals

NextBO == BOFeasibility \/ BOSamplePanic \/ BOReject \/ BOAccept

SpecBO == InitBO /\ [][NextBO]_vars

InitDiv == rec \in DivRecords /\ InitLocals

NextDiv == DivFeasibility \/ DivSamplePanic \/ DivReject \/ DivAccept

SpecDiv == InitDiv /\ [][NextDiv]_vars

InitMT == rec \in MTRecords /\ InitLocals

NextMT == MTGenerate

SpecMT == InitMT /\ [][NextMT]_vars

InitMO == rec \in MORecords /\ InitLocals

NextMO ==
    \/ MOFeasibility \/ MOSamplePanic \/ MOSampleReject \/ MOSampleAccept
    \/ MOMask1 \/ MOMask2 \/ MOMaskAnswer

SpecMO == InitMO /\ [][NextMO]_vars

\* the call under fair draws: generateJSONProblem runs on, and a loop that
\* draws at random does not avoid for ever the draws that change its state
\* (an iteration that changes nothing is a stuttering step)
SpecMOFair == SpecMO /\ WF_vars(NextMO)

InitSeq == rec \in SeqRecords /\ InitLocals

NextSeq == SeqGenerate

SpecSeq == InitSeq /\ [][NextSeq]_vars

\* a call of one of the four validators on a dictionary
InitVerify ==
    /\ rec \in VerifyCalls
    /\ pc = "start"
    /\ recv = rec
    /\ err = <<>>
    /\ ret = [kind |-> "none"]
    /\ solution = <<>>
    /\ result = 0
    /\ pos = 0
    /\ gj = GJIdle
    /\ picture = <<>>
    /\ operand1 = <<>>
    /\ operand2 = <<>>
    /\ answer = <<>>
    /\ masked1 = <<>>
    /\ masked2 = <<>>
    /\ maskedanswer = <<>>

NextVerify ==
    VerifyBasicOperation \/ VerifyDivision \/ VerifyMultiplicationTable \/ VerifySequence

SpecVerify == InitVerify /\ [][NextVerify]_vars

InitHelpers == rec \in HelperCalls /\ InitLocals

NextHelpers == CallRandN \/ CallNbDigits

SpecHelpers == InitHelpers /\ [][NextHelpers]_vars

\* a call of generateJSONProblem on a record of any of the five kinds
\* a call of GenerateJSON; no generator is running yet
InitGen ==
    /\ gj \in {GJFrame(problems) : problems \in GJInputs}
    /\ picture = <<>>
    /\ pc = "idle"
    /\ rec = [kind |-> "none"]
    /\ recv = rec
    /\ err = "nil"
    /\ ret = EmptyProblem
    /\ solution = <<>>
    /\ result = 0
    /\ pos = 0
    /\ operand1 = <<>>
    /\ operand2 = <<>>
    /\ answer = <<>>
    /\ masked1 = <<>>
    /\ masked2 = <<>>
    /\ maskedanswer = <<>>

\* the steps of GenerateJSON and of the generators it calls
NextGen ==
    \/ GJMarshal \/ GJNextProblem \/ GJUnsupported \/ GJVerify
    \/ GJGenerateFails \/ GJAppend
    \/ BOFeasibility \/ BOSamplePanic \/ BOReject \/ BOAccept
    \/ DivFeasibility \/ DivSamplePanic \/ DivReject \/ DivAccept
    \/ MTGenerate \/ SeqGenerate

SpecGen == InitGen /\ [][NextGen]_vars

InitMOWide == rec \in MOWideRecords /\ InitLocals

SpecMOWide == InitMOWide /\ [][NextMO]_vars

\* the call under fair draws, as in SpecMOFair
SpecMOWideFair == SpecMOWide /\ WF_vars(NextMO)

\* the calls of GetTikZPicture: generateJSONProblem runs, then the picture is
\* put together
InitTikZ ==
    /\ rec \in BORecords \cup DivRecords \cup SeqRecords
    /\ InitLocals

NextTikZ ==
    \/ BOFeasibility \/ BOSamplePanic \/ BOReject \/ BOAccept \/ BOGetTikZPicture
    \/ DivFeasibility \/ DivSamplePanic \/ DivReject \/ DivAccept \/ DivGetTikZPicture
    \/ SeqGenerate \/ SeqGetTikZPicture

SpecTikZ == InitTikZ /\ [][NextTikZ]_vars

Init ==
    /\ rec \in BORecords \cup DivRecords \cup SeqRecords \cup MTRecords \cup MORecords
    /\ InitLocals

Next == NextBO \/ NextDiv \/ NextSeq \/ NextMT \/ NextMO

Spec == Init /\ [][Next]_vars

-----------------------------------------------------------------------------
(* Reading an instance back                                                *)

\* a token that is a non-empty string of decimal digits
IsNumeral(tok) ==
    /\ Len(tok) >= 1
    /\ \A i \in 1..Len(tok) : tok[i] \in {"0", "1", "2", "3", "4", "5", "6", "7", "8", "9"}

\* the digit a character stands for
CharDigit(c) ==
    CASE c = "0" -> 0 [] c = "1" -> 1 [] c = "2" -> 2 [] c = "3" -> 3 [] c = "4" -> 4
      [] c = "5" -> 5 [] c = "6" -> 6 [] c = "7" -> 7 [] c = "8" -> 8 [] c = "9" -> 9

\* the number a numeral denotes
RECURSIVE NumeralValueUpTo(_, _)
NumeralValueUpTo(tok, n) ==
    IF n = 0 THEN 0 ELSE 10 * NumeralValueUpTo(tok, n - 1) + CharDigit(tok[n])

NumeralValue(tok) == NumeralValueUpTo(tok, Len(tok))

\* the number of decimal digits of a natural number
RECURSIVE DigitCount(_)
DigitCount(n) == IF n < 10 THEN 1 ELSE 1 + DigitCount(n \div 10)

\* 10^e for e >= 0
RECURSIVE TenTo(_)
TenTo(e) == IF e = 0 THEN 1 ELSE 10 * TenTo(e - 1)

\* integer quotient of naturals, b > 0
Quotient(a, b) == CHOOSE q \in 0..a : q * b <= a /\ a < (q + 1) * b

\* one operator applied to two integers (the divisor of "/" is not 0)
Operate(op, a, b) ==
    CASE op = "+" -> a + b
      [] op = "-" -> a - b
      [] op = "*" -> a * b
      [] op = "/" -> Quotient(a, b)

\* the operator folded left to right over the values vals[1..n]
RECURSIVE FoldLeft(_, _, _)
FoldLeft(op, vals, n) ==
    IF n = 1 THEN vals[1] ELSE Operate(op, FoldLeft(op, vals, n - 1), vals[n])

\* the positions (0-based) of args that hold the marker "?"
MaskedPositions(a) == {i \in 0..(Len(a) - 1) : At(a, i) = <<"?">>}

Returned(kind) == pc = "done" /\ rec.kind = kind

-----------------------------------------------------------------------------
(* Claims on basicOperation.generateJSONProblem                            *)

\* C1: in every Basic Operation instance returned, folding the operator left
\* to right over the k operand tokens of solution yields the last token of
\* solution, and that token has exactly the requested number r of digits.
C1_FoldIsResult ==
    Returned("BasicOperation") =>
        LET sol == ret.Solution
            k == rec.nboperands
            last == At(sol, 1 + k)
            vals == [i \in 1..k |-> NumeralValue(At(sol, i))]
        IN  /\ Len(sol) = 2 + k
            /\ \A i \in 1..(1 + k) : IsNumeral(At(sol, i))
            /\ NumeralValue(last) = FoldLeft(rec.operator, vals, k)
            /\ Len(last) = rec.nbdigitsrslt

\* C1 witness: a returned subtraction of two operands
C1_Witness ==
    /\ Returned("BasicOperation")
    /\ rec.operator = "-"
    /\ rec.nboperands = 2
    /\ At(ret.Solution, 1) = <<"9">>
    /\ At(ret.Solution, 2) = <<"4">>
    /\ At(ret.Solution, 3) = <<"5">>

\* C5 (as claimed): whenever the rejection-sampling loop is entered with
\* k >= 1 operands of d >= 1 digits, some tuple of k d-digit operands has a
\* strictly positive left-fold result with exactly r digits.
C5_Claimed ==
    (pc = "sample" /\ rec.kind = "BasicOperation"
        /\ rec.nboperands >= 1 /\ rec.nbdigitsop >= 1) =>
        \E vals \in [1..rec.nboperands ->
                        TenTo(rec.nbdigitsop - 1)..(TenTo(rec.nbdigitsop) - 1)] :
            LET v == FoldLeft(rec.operator, vals, rec.nboperands)
            IN  v > 0 /\ DigitCount(v) = rec.nbdigitsrslt

\* C6: for "+", a requested number of digits r outside
\* [DigitCount(k*10^(d-1)), DigitCount(k*(10^d-1))] ends the call with an
\* error and no instance.
C6_SumOutOfRangeFails ==
    (/\ rec.kind = "BasicOperation"
     /\ rec.operator = "+"
     /\ rec.nbdigitsop >= 1
     /\ pc # "start"
     /\ \/ rec.nbdigitsrslt < DigitCount(rec.nboperands * TenTo(rec.nbdigitsop - 1))
        \/ rec.nbdigitsrslt > DigitCount(rec.nboperands * (TenTo(rec.nbdigitsop) - 1)))
    => (pc = "error" /\ err # "nil" /\ ret = EmptyProblem)

\* C6 witness: k = 2, d = 1 and r = 3 has been rejected
C6_Witness ==
    /\ rec.kind = "BasicOperation"
    /\ rec.operator = "+"
    /\ rec.nboperands = 2
    /\ rec.nbdigitsop = 1
    /\ rec.nbdigitsrslt = 3
    /\ pc = "error"

\* C7 (as claimed): for "-" with k >= 1 operands of d >= 1 digits, a
\* requested number of digits r outside [1, DigitCount((k-1)*10^d)] ends the
\* call with an error before sampling.
C7_Claimed ==
    (/\ rec.kind = "BasicOperation"
     /\ rec.operator = "-"
     /\ rec.nboperands >= 1
     /\ rec.nbdigitsop >= 1
     /\ pc # "start"
     /\ \/ rec.nbdigitsrslt < 1
        \/ rec.nbdigitsrslt > DigitCount((rec.nboperands - 1) * TenTo(rec.nbdigitsop)))
    => pc = "error"

\* C8 (as claimed): for "/", every record of k >= 1 operands of d >= 1 digits
\* that is not rejected with an error has exactly k = 2 operands and r = 1
\* result digit.
C8_Claimed ==
    (/\ rec.kind = "BasicOperation"
     /\ rec.operator = "/"
     /\ rec.nboperands >= 1
     /\ rec.nbdigitsop >= 1
     /\ pc \notin {"start", "error"})
    => (rec.nboperands = 2 /\ rec.nbdigitsrslt = 1)

\* C9: every Basic Operation instance has exactly one "?" in args: the result
\* (last token) for type 0, one operand at a position in 1..k for type 1; the
\* other tokens are shown and args[0], the operator, is never masked.
C9_OneMask ==
    Returned("BasicOperation") =>
        LET k == rec.nboperands
            masked == MaskedPositions(ret.Args)
        IN  /\ Cardinality(masked) = 1
            /\ 0 \notin masked
            /\ At(ret.Args, 0) = <<rec.operator>>
            /\ rec.botype = BORESULT => masked = {1 + k}
            /\ rec.botype = BOOPERAND => masked \subseteq 1..k
            /\ \A i \in 0..(1 + k) : i \notin masked => At(ret.Args, i) = At(ret.Solution, i)

\* C9 witness: a type-1 instance whose second operand is masked
C9_Witness ==
    /\ Returned("BasicOperation")
    /\ rec.botype = BOOPERAND
    /\ rec.nboperands = 2
    /\ MaskedPositions(ret.Args) = {2}
    /\ At(ret.Args, 3) = At(ret.Solution, 3)

-----------------------------------------------------------------------------
(* Claims on division.generateJSONProblem and sequence.generateJSONProblem *)

\* C3: in every Division instance returned, with solution = [dividend,
\* divisor, quotient, remainder], dividend = divisor * quotient + remainder
\* and 0 <= remainder < divisor.
C3_DivisionIdentity ==
    Returned("Division") =>
        /\ Len(ret.Solution) = 4
        /\ \A i \in 0..3 : IsNumeral(At(ret.Solution, i))
        /\ LET dividend == NumeralValue(At(ret.Solution, 0))
               divisor == NumeralValue(At(ret.Solution, 1))
               quotient == NumeralValue(At(ret.Solution, 2))
               remainder == NumeralValue(At(ret.Solution, 3))
           IN  /\ dividend = divisor * quotient + remainder
               /\ 0 <= remainder
               /\ remainder < divisor

\* C3 witness: 17 / 5 is returned with quotient 3 and remainder 2
C3_Witness ==
    /\ Returned("Division")
    /\ ret.Solution = <<<<"1", "7">>, <<"5">>, <<"3">>, <<"2">>>>

\* the number of quotient digits the corrections of generateJSONProblem lead to
ClampedQuotientDigits(dv, dr, q) ==
    LET raised == IF q > dv - dr THEN q ELSE dv - dr
    IN  IF raised < dv - dr + 1 THEN raised ELSE dv - dr + 1

\* C10: for every Division record (dv, dr, q) the call never returns an
\* error, and the solution returned has a dividend of exactly dv digits, a
\* divisor of exactly dr digits and a non-zero quotient of exactly
\* min(max(q, dv-dr), dv-dr+1) digits.
C10_DivisionDigits ==
    rec.kind = "Division" =>
        /\ pc # "error"
        /\ err = "nil"
        /\ pc = "done" =>
            /\ Len(ret.Solution) = 4
            /\ \A i \in 0..2 : IsNumeral(At(ret.Solution, i))
            /\ Len(At(ret.Solution, 0)) = rec.nbdvdigits
            /\ Len(At(ret.Solution, 1)) = rec.nbdrdigits
            /\ NumeralValue(At(ret.Solution, 2)) # 0
            /\ Len(At(ret.Solution, 2)) =
                   ClampedQuotientDigits(rec.nbdvdigits, rec.nbdrdigits, rec.nbqdigits)

\* C10 witness: 3 quotient digits requested for 2 and 1 digits, 2 delivered
C10_Witness ==
    /\ Returned("Division")
    /\ rec.nbdvdigits = 2
    /\ rec.nbdrdigits = 1
    /\ rec.nbqdigits = 3
    /\ Len(At(ret.Solution, 2)) = 2

\* the integer a token denotes: a numeral, or "-" and a numeral
IsInteger(tok) ==
    \/ IsNumeral(tok)
    \/ Len(tok) >= 2 /\ tok[1] = "-" /\ IsNumeral(Tail(tok))

IntegerValue(tok) ==
    IF tok[1] = "-" THEN 0 - NumeralValue(Tail(tok)) ELSE NumeralValue(tok)

\* C4: every Sequence instance returned for n items and bounds [geq, leq]
\* has a solution of exactly n tokens, each the previous one plus 1, the
\* first at least geq and the last at most leq.
C4_SequenceRun ==
    Returned("Sequence") =>
        LET n == rec.nbitems
            sol == ret.Solution
        IN  /\ Len(sol) = n
            /\ \A i \in 0..(n - 1) : IsInteger(At(sol, i))
            /\ \A i \in 0..(n - 2) :
                  IntegerValue(At(sol, i + 1)) = IntegerValue(At(sol, i)) + 1
            /\ n >= 1 => /\ IntegerValue(At(sol, 0)) >= rec.geq
                         /\ IntegerValue(At(sol, n - 1)) <= rec.leq

\* C4 witness: the run -1, 0, 1 returned for bounds [-1, 2]
C4_Witness ==
    /\ Returned("Sequence")
    /\ rec.geq = 0 - 1
    /\ rec.leq = 2
    /\ ret.Solution = <<<<"-", "1">>, <<"0">>, <<"1">>>>

-----------------------------------------------------------------------------
(* Claims on the instances of every generator                              *)

\* C2: in every instance returned by any of the five generators, args and
\* solution have the same length, and every token of args that is not "?" is
\* the token of solution at the same index.
C2_MaskingShape ==
    pc = "done" =>
        /\ Len(ret.Args) = Len(ret.Solution)
        /\ \A i \in 0..(Len(ret.Args) - 1) :
              At(ret.Args, i) # <<"?">> => At(ret.Args, i) = At(ret.Solution, i)

\* C2 witness: a table of type operand whose rows 1x3=3 and 3x2=6 are shown
\* as ?x3=3 and 3x?=6
C2_Witness ==
    /\ Returned("MultiplicationTable")
    /\ rec.mttype = MTOPERAND
    /\ ret.Solution = <<<<"3">>, <<"1">>, <<"3">>, <<"3">>, <<"3">>, <<"2">>, <<"6">>>>
    /\ ret.Args = <<<<"3">>, <<"?">>, <<"3">>, <<"3">>, <<"3">>, <<"?">>, <<"6">>>>

-----------------------------------------------------------------------------
(* C11: in every Division call whose record has nbdvdigits >= 1 and        *)
(* nbdrdigits >= 1, the sampling loop can exit: once nbqdigits has been    *)
(* corrected, some dividend and divisor that an iteration can draw give a  *)
(* non-zero quotient with the corrected number of digits. The state does   *)
(* not change across rejected iterations, so this is what fair draws need  *)
(* in order to leave the loop.                                             *)
C11_Claimed ==
    (/\ pc = "sample"
     /\ rec.kind = "Division"
     /\ rec.nbdvdigits >= 1
     /\ rec.nbdrdigits >= 1)
    => \E d \in DivDraws(recv) :
          /\ d[2] # 0
          /\ ~DivLoopCond(GoDiv(d[1], d[2]), recv.nbqdigits)

-----------------------------------------------------------------------------
(* C12: a call of sequence.generateJSONProblem ends with an error exactly  *)
(* when leq - geq + 1 < nbitems; in every other case it ends by returning  *)
(* an instance whose args and solution hold nbitems tokens, so it never    *)
(* panics.                                                                 *)
C12_Claimed ==
    (rec.kind = "Sequence" /\ pc # "start")
    => IF rec.leq - rec.geq + 1 < rec.nbitems
       THEN pc = "error" /\ err # "nil"
       ELSE /\ pc = "done"
            /\ err = "nil"
            /\ Len(ret.Args) = rec.nbitems
            /\ Len(ret.Solution) = rec.nbitems

-----------------------------------------------------------------------------
(* C13: in every Sequence instance, args[0] is shown (equal to             *)
(* solution[0], not "?") exactly when the type is first or both, and       *)
(* args[nbitems-1] is shown exactly when the type is last or both,         *)
(* whatever position was drawn for the hint. The claim speaks of           *)
(* nbitems >= 1; it is stated here for nbitems >= 2, where the first and   *)
(* the last position differ and its two halves can both hold.              *)
C13_Claimed ==
    (Returned("Sequence") /\ rec.nbitems >= 2)
    => LET last == rec.nbitems - 1
       IN  /\ (At(ret.Args, 0) # QMark) <=> (rec.seqtype \in {SEQFIRST, SEQBOTH})
           /\ At(ret.Args, 0) # QMark => At(ret.Args, 0) = At(ret.Solution, 0)
           /\ (At(ret.Args, last) # QMark) <=> (rec.seqtype \in {SEQLAST, SEQBOTH})
           /\ At(ret.Args, last) # QMark => At(ret.Args, last) = At(ret.Solution, last)

-----------------------------------------------------------------------------
(* Claims on multiplicationTable.generateJSONProblem                       *)

\* the three tokens of row j (0-based) of a table
MTRow(tokens, j) == <<At(tokens, 1 + 3 * j), At(tokens, 2 + 3 * j), At(tokens, 3 + 3 * j)>>

\* a row of numerals that reads  a x b = c
RowReads(row, a, b, c) ==
    /\ \A t \in 1..3 : IsNumeral(row[t])
    /\ NumeralValue(row[1]) = a
    /\ NumeralValue(row[2]) = b
    /\ NumeralValue(row[3]) = c

RowsOf(tokens, factor, m, nbrows, inv) ==
    {j \in 0..(nbrows - 1) :
        \/ RowReads(MTRow(tokens, j), factor, m, factor * m)
        \/ inv /\ RowReads(MTRow(tokens, j), m, factor, factor * m)}

C16_OneMaskPerRow ==
    Returned("MultiplicationTable")
    => /\ At(ret.Args, 0) = At(ret.Solution, 0)
       /\ At(ret.Args, 0) # QMark
       /\ Len(ret.Args) = 1 + 3 * (1 + rec.leq - rec.geq)
       /\ \A j \in 0..(rec.leq - rec.geq) :
             LET a == MTRow(ret.Args, j)
                 s == MTRow(ret.Solution, j)
             IN  /\ \A t \in 1..3 : s[t] # QMark
                 /\ Cardinality({t \in 1..3 : a[t] = QMark}) = 1
                 /\ IF rec.mttype = MTRESULT
                    THEN a = <<s[1], s[2], QMark>>
                    ELSE a = <<QMark, s[2], s[3]>> \/ a = <<s[1], QMark, s[3]>>

\* C16 witness: a table of type operand in which the first row hides its
\* first factor and the second row its second factor
C16_Witness ==
    /\ Returned("MultiplicationTable")
    /\ rec.mttype = MTOPERAND
    /\ ret.Solution = <<<<"7">>, <<"7">>, <<"1">>, <<"7">>, <<"7">>, <<"2">>, <<"1", "4">>>>
    /\ ret.Args = <<<<"7">>, <<"?">>, <<"1">>, <<"7">>, <<"7">>, <<"?">>, <<"1", "4">>>>

-----------------------------------------------------------------------------
(* Claims on mysteryOperation.generateJSONProblem                          *)

\* the positions i of args, lo <= i < lo + n, that hold "?"
MaskedIn(lo, n) == {i \in lo..(lo + n - 1) : At(ret.Args, i) = QMark}

\* a record of one or more digits in every field whose numbers of masked
\* digits lie between 0 and the digits of the field, and that passes the
\* checks
MOMasksInRange(mo) ==
    /\ mo.nbdigits1 >= 1 /\ mo.nbdigits2 >= 1 /\ mo.nbdigitsanswer >= 1
    /\ mo.nbmasked1 \in 0..mo.nbdigits1
    /\ mo.nbmasked2 \in 0..mo.nbdigits2
    /\ mo.nbmaskedanswer \in 0..mo.nbdigitsanswer
    /\ ~MOInfeasible(mo)

\* the instance returned masks exactly the configured number of digits of
\* every field and none of the four header tokens
MOMaskedAsConfigured ==
    /\ pc = "done"
    /\ Len(ret.Args) = 4 + rec.nbdigits1 + rec.nbdigits2 + rec.nbdigitsanswer
    /\ \A i \in 0..3 : At(ret.Args, i) # QMark /\ At(ret.Args, i) = At(ret.Solution, i)
    /\ Cardinality(MaskedIn(4, rec.nbdigits1)) = rec.nbmasked1
    /\ Cardinality(MaskedIn(4 + rec.nbdigits1, rec.nbdigits2)) = rec.nbmasked2
    /\ Cardinality(MaskedIn(4 + rec.nbdigits1 + rec.nbdigits2, rec.nbdigitsanswer))
          = rec.nbmaskedanswer

\* C17: under fair draws, every call of mysteryOperation.generateJSONProblem
\* on a record that passes the checks, with 0 <= nbmasked <= nbdigits in each
\* of operand1, operand2 and answer (fields of one digit or more), terminates
\* and returns args in which each field holds exactly its nbmasked "?" at
\* distinct positions and the four header tokens are not masked.
C17_Claimed ==
    (pc = "start" /\ rec.kind = "MysteryOperation" /\ MOMasksInRange(rec))
    ~> MOMaskedAsConfigured

\* the Basic Operation record of two operands that has the operator and the
\* digits of a Mystery Operation record whose operands have the same digits
BOOfMO(mo) ==
    [kind |-> "BasicOperation", botype |-> BORESULT, operator |-> mo.operator,
     nboperands |-> 2, nbdigitsop |-> mo.nbdigits1, nbdigitsrslt |-> mo.nbdigitsanswer]

\* C18: for every operator, every number d >= 1 of digits of both operands
\* and every number r of digits of the result, the checks of
\* mysteryOperation.generateJSONProblem reject (nbdigits1 = d, nbdigits2 = d,
\* nbdigitsanswer = r), the masked digits being in range, exactly when the
\* feasibility check of basicOperation.generateJSONProblem rejects
\* (nboperands = 2, nbdigitsop = d, nbdigitsrslt = r).
C18_Claimed ==
    (/\ rec.kind = "MysteryOperation"
     /\ pc # "start"
     /\ rec.nbdigits1 = rec.nbdigits2
     /\ rec.nbdigits1 >= 1
     /\ rec.nbmasked1 <= rec.nbdigits1
     /\ rec.nbmasked2 <= rec.nbdigits2
     /\ rec.nbmaskedanswer <= rec.nbdigitsanswer)
    => ((pc = "error") <=> BOInfeasible(BOOfMO(rec)))

\* the number written by the n one-digit tokens of solution from index lo
ReadBack(lo, n) == NumeralValue([i \in 1..n |-> At(ret.Solution, lo + i - 1)[1]])

\* the tokens of solution from index lo are the characters of str, in order
DigitsOf(str, lo) == \A i \in 0..(Len(str) - 1) : At(ret.Solution, lo + i) = <<At(str, i)>>

\* C19: in every Mystery Operation instance the tokens of solution from
\* index 4 on are, in order, the decimal digits of the sampled operand1
\* (nbdigits1 tokens), operand2 (nbdigits2 tokens) and answer (nbdigitsanswer
\* tokens), and the numbers read back from them satisfy
\* operand1 <operator> operand2 = answer.
C19_Claimed ==
    Returned("MysteryOperation")
    => LET d1 == rec.nbdigits1
           d2 == rec.nbdigits2
           da == rec.nbdigitsanswer
       IN  /\ Len(ret.Solution) = 4 + d1 + d2 + da
           /\ Len(operand1) = d1 /\ Len(operand2) = d2 /\ Len(answer) = da
           /\ DigitsOf(operand1, 4)
           /\ DigitsOf(operand2, 4 + d1)
           /\ DigitsOf(answer, 4 + d1 + d2)
           /\ IF rec.operator = "/"
              THEN /\ ReadBack(4 + d1, d2) # 0
                   /\ Quotient(ReadBack(4, d1), ReadBack(4 + d1, d2)) = ReadBack(4 + d1 + d2, da)
              ELSE Operate(rec.operator, ReadBack(4, d1), ReadBack(4 + d1, d2))
                      = ReadBack(4 + d1 + d2, da)

-----------------------------------------------------------------------------
(* Claims on the validators                                                *)

\* the mandatory keys of a validator and the zero value of its record
MandatoryKeys(validator) ==
    CASE validator = "verifyBasicOperationDict" ->
             {"type", "operator", "nboperands", "nbdigitsop", "nbdigitsrslt"}
      [] validator = "verifyDivisionDict" -> {"nbdvdigits", "nbdrdigits", "nbqdigits"}
      [] validator = "verifyMultiplicationTableDict" -> {"type", "nbdigits"}
      [] validator = "verifySequenceDict" -> {"type", "nbitems", "geq", "leq"}

ZeroRecord(validator) ==
    CASE validator = "verifyBasicOperationDict" -> ZeroBasicOperation
      [] validator = "verifyDivisionDict" -> ZeroDivision
      [] validator = "verifyMultiplicationTableDict" -> ZeroMultiplicationTable
      [] validator = "verifySequenceDict" -> ZeroSequence

\* the mandatory keys the dictionary of the call lacks
MissingKeys == {key \in MandatoryKeys(rec.kind) : ~HasKey(rec.dict, key)}

\* C20: a call of verifyBasicOperationDict, verifyDivisionDict,
\* verifyMultiplicationTableDict or verifySequenceDict on a dictionary that
\* lacks a mandatory key returns to its caller (the process is not ended)
\* the zero-valued record together with an error that names a missing key.
C20_Claimed ==
    (pc # "start" /\ MissingKeys # {})
    => /\ pc = "error"
       /\ Len(err) = 2
       /\ err[2] \in MissingKeys
       /\ ret = ZeroRecord(rec.kind)

\* the integer a dictionary value supplies: an int, a float64 without
\* fraction (kept in tenths) or a string that writes a number
SuppliesInt(v) ==
    \/ v.type = "int"
    \/ v.type = "float64" /\ v.num % 10 = 0
    \/ v.type = "string" /\ IsNumeral(v.str)

SuppliedInt(v) ==
    CASE v.type = "int" -> v.num
      [] v.type = "float64" -> v.num \div 10
      [] v.type = "string" -> NumeralValue(v.str)

\* C21: the record returned by verifyMultiplicationTableDict has geq, leq,
\* inv and sorted equal to the values supplied under the keys "geq", "leq",
\* "inv" and "sorted" when these keys are present (an integer for the bounds,
\* a boolean for the flags), and equal to the defaults 1, 10, false and true
\* when they are absent.
C21_Claimed ==
    (pc = "done" /\ rec.kind = "verifyMultiplicationTableDict")
    => LET dict == rec.dict
       IN  /\ ~HasKey(dict, "geq") => ret.geq = 1
           /\ HasKey(dict, "geq") /\ SuppliesInt(dict["geq"]) => ret.geq = SuppliedInt(dict["geq"])
           /\ ~HasKey(dict, "leq") => ret.leq = 10
           /\ HasKey(dict, "leq") /\ SuppliesInt(dict["leq"]) => ret.leq = SuppliedInt(dict["leq"])
           /\ ~HasKey(dict, "inv") => ret.inv = FALSE
           /\ dict["inv"].type = "bool" => ret.inv = dict["inv"].bool
           /\ ~HasKey(dict, "sorted") => ret.sorted = TRUE
           /\ dict["sorted"].type = "bool" => ret.sorted = dict["sorted"].bool

-----------------------------------------------------------------------------
(* Claims on the helpers                                                   *)

\* C22: a call helpers.RandN(d) with d >= 1 returns an integer of
\* [10^(d-1), 10^d - 1], and a call with d < 1 returns no number.
C22_Claimed ==
    (rec.kind = "RandN" /\ pc # "start")
    => IF rec.n >= 1
       THEN pc = "done" /\ result >= TenTo(rec.n - 1) /\ result <= TenTo(rec.n) - 1
       ELSE pc # "done"

\* the number of decimal digits of the magnitude hi * 10^9 + lo
WideDigitCount(a) == IF a.hi > 0 THEN 9 + DigitCount(a.hi) ELSE DigitCount(a.lo)

\* C23: helpers.NbDigits(n) is the number of decimal digits of n for n > 0,
\* is 1 for n = 0, and is one more than the number of digits of |n| (that
\* is, 1 + NbDigits(|n|)) for n < 0.
C23_Claimed ==
    (rec.kind = "NbDigits" /\ pc = "done")
    => IF rec.n.hi = 0 /\ rec.n.lo = 0 THEN result = 1
       ELSE IF rec.neg THEN result = 1 + WideDigitCount(rec.n)
       ELSE result = WideDigitCount(rec.n)


-----------------------------------------------------------------------------
(* Claims on GenerateJSON                                                  *)

\* the ids and the types of the instances requested, in the order of the
\* master problems: 0 .. nbprobs-1 for each of them
RECURSIVE GJRequested(_)
GJRequested(problems) ==
    IF problems = <<>> THEN <<>>
    ELSE [j \in 1..Head(problems).nbprobs |->
              [Id |-> j - 1,
               Probtype |-> GJVerified(Head(problems).probtype, Head(problems).args).ret.kind]]
         \o GJRequested(Tail(problems))

\* the call of GenerateJSON is over: it returned, or the process ended in
\* log.Fatalf or in a panic of the generator
GJOver == gj.pc \in {"returned", "exit"} \/ (gj.pc = "call" /\ pc = "panic")

\* the call returned the instances requested: one per request, in order,
\* numbered from 0 for each master problem, args as long as solution
GJReturnedAll ==
    /\ gj.data # <<>>
    /\ LET probs == gj.data[2]
       IN  /\ [k \in 1..Len(probs) |-> [Id |-> probs[k].Id, Probtype |-> probs[k].Probtype]]
                  = GJRequested(gj.problems)
           /\ \A k \in 1..Len(probs) : Len(probs[k].Args) = Len(probs[k].Solution)

\* C24: a call of GenerateJSON is all-or-nothing: it ends by returning, and
\* it returns either an error and no data, or no error and the instances
\* requested (sum of nbprobs of them, in the order of the master problems,
\* the j-th of a master problem with id j, args as long as solution).
C24_Claimed ==
    GJOver => /\ gj.pc = "returned"
              /\ IF gj.err # <<>> THEN gj.data = <<>> ELSE GJReturnedAll


-----------------------------------------------------------------------------
(* Claims on the pictures                                                  *)

\* the labels of the coordinates emitted before the k-th element
CoordinatesBefore(k) ==
    {picture[j].label : j \in {i \in 1..(k - 1) : picture[i].prim = "coordinate"}}

\* C25: in a picture of a basic operation (with at least one operand), of a
\* sequence or of a division, read in the order of emission, the first
\* element is a coordinate given as an absolute point, and every element
\* refers only to labels of coordinates emitted before it.
C25_NoForwardReference ==
    (pc = "drawn" /\ (rec.kind = "BasicOperation" => rec.nboperands >= 1))
    => /\ picture[1].prim = "coordinate"
       /\ picture[1].abs
       /\ \A k \in 1..Len(picture) :
             /\ picture[k].refs \subseteq CoordinatesBefore(k)
             /\ (picture[k].prim = "coordinate" /\ ~picture[k].abs) => picture[k].refs # {}

\* a basic operation of two operands is drawn: the operator is placed from
\* op1, the bounding box from split2
C25_Witness ==
    /\ pc = "drawn"
    /\ rec.kind = "BasicOperation"
    /\ rec.nboperands = 2
    /\ \E k \in 1..Len(picture) :
          picture[k].label = Label("operator", 0) /\ picture[k].refs = {Label("op", 1)}
    /\ \E k \in 1..Len(picture) : picture[k].prim = "rectangle"


\* the sum of two offsets
OffsetSum(a, b) ==
    Offset(a.xw + b.xw, a.xcm + b.xcm, a.yh + b.yh, a.yb + b.yb, a.ycm + b.ycm)

OffsetDiff(a, b) ==
    Offset(a.xw - b.xw, a.xcm - b.xcm, a.yh - b.yh, a.yb - b.yb, a.ycm - b.ycm)

\* the coordinate of the picture that defines a label
CoordinateOf(label) ==
    picture[CHOOSE k \in 1..Len(picture) :
                picture[k].prim = "coordinate" /\ picture[k].label = label]

\* the point a label stands for: the offsets from the absolute point, summed
\* along the references
RECURSIVE PointOf(_)
PointOf(label) ==
    LET c == CoordinateOf(label)
    IN  IF c.abs THEN c.at ELSE OffsetSum(PointOf(CHOOSE r \in c.refs : TRUE), c.at)

\* b is not to the left of a, not below a, strictly to the right of a and
\* strictly above a, whatever the (positive) lengths \zerowidth,
\* \zeroheight and \baselineskip are
NotLeftOf(a, b) == OffsetDiff(b, a).xw >= 0 /\ OffsetDiff(b, a).xcm >= 0

NotBelow(a, b) ==
    OffsetDiff(b, a).yh >= 0 /\ OffsetDiff(b, a).yb >= 0 /\ OffsetDiff(b, a).ycm >= 0

RightOf(a, b) == NotLeftOf(a, b) /\ (OffsetDiff(b, a).xw > 0 \/ OffsetDiff(b, a).xcm > 0)

Above(a, b) ==
    NotBelow(a, b)
    /\ (OffsetDiff(b, a).yh > 0 \/ OffsetDiff(b, a).yb > 0 \/ OffsetDiff(b, a).ycm > 0)

\* C26: in the picture of a division the corners bottom and right of the
\* bounding box are distinct points, right lies to the right of and above
\* bottom, and the rectangle encloses label1, label2, label3 and line1.
C26_Claimed ==
    (pc = "drawn" /\ rec.kind = "Division")
    => LET bottom == PointOf(Label("bottom", 0))
           right == PointOf(Label("right", 0))
       IN  /\ bottom # right
           /\ RightOf(bottom, right)
           /\ Above(bottom, right)
           /\ \A name \in {"label1", "label2", "label3", "line1"} :
                 /\ NotLeftOf(bottom, PointOf(Label(name, 0)))
                 /\ NotBelow(bottom, PointOf(Label(name, 0)))
                 /\ NotLeftOf(PointOf(Label(name, 0)), right)
                 /\ NotBelow(PointOf(Label(name, 0)), right)


\* the instance ret with the items of the positions in masks (1-based
\* positions of Solution) masked and every other item shown
MaskedAt(masks) ==
    [ret EXCEPT !.Args = [k \in 1..Len(ret.Solution) |->
                              IF k \in masks THEN QMark ELSE ret.Solution[k]]]

\* the positions of the items that can be masked: the operands and the result
\* of a basic operation, the items of a sequence
Maskable ==
    IF rec.kind = "BasicOperation" THEN 2..Len(ret.Solution) ELSE 1..Len(ret.Solution)

\* the picture of the call for another instance
PictureOf(instance) ==
    IF rec.kind = "BasicOperation" THEN BOPicture(rec, instance) ELSE SeqPicture(rec, instance)

\* the coordinates of a picture, and the minimum widths of its elements
CoordinatesIn(elements) ==
    [k \in 1..Len(elements) |->
        IF elements[k].prim = "coordinate" THEN elements[k] ELSE elements[k].prim]

WidthsIn(elements) == [k \in 1..Len(elements) |-> elements[k].width]

\* the coordinates do not depend on the positions masked
C27_SameCoordinates ==
    (pc = "drawn" /\ rec.kind \in {"BasicOperation", "Sequence"})
    => \A masks \in SUBSET Maskable :
          CoordinatesIn(PictureOf(MaskedAt(masks))) = CoordinatesIn(picture)

\* C27: the picture of a sequence or of a basic operation has the same
\* coordinates and the same box widths as the picture of the instance of the
\* same parameters and solution with other positions masked: a literal that
\* is shown carries the minimum width of a fill-in box.
C27_Claimed ==
    (pc = "drawn" /\ rec.kind \in {"BasicOperation", "Sequence"})
    => \A masks \in SUBSET Maskable :
          /\ CoordinatesIn(PictureOf(MaskedAt(masks))) = CoordinatesIn(picture)
          /\ WidthsIn(PictureOf(MaskedAt(masks))) = WidthsIn(picture)


-----------------------------------------------------------------------------
(* Claims on the sampling loop of mysteryOperation                         *)

\* the call is in the sampling loop of a record whose three fields have a
\* digit or more
MOSampling ==
    /\ pc = "sample"
    /\ rec.kind = "MysteryOperation"
    /\ rec.nbdigits1 >= 1 /\ rec.nbdigits2 >= 1 /\ rec.nbdigitsanswer >= 1

\* C28: under fair draws the sampling loop of a record that passed the
\* feasibility check, with a digit or more in every field, is left: some
\* pair of operands gives an answer of nbdigitsanswer characters.
C28_Claimed == MOSampling ~> (pc # "sample")

\* C29: for the operator "/" the sampling loop never divides by a second
\* operand that is 0: with a digit or more in each operand, the call does not
\* panic in the loop.
C29_Claimed ==
    (rec.kind = "MysteryOperation" /\ rec.operator = "/"
        /\ rec.nbdigits1 >= 1 /\ rec.nbdigits2 >= 1 /\ operand1 = <<>>)
    => pc # "panic"


-----------------------------------------------------------------------------
(* Claims on the picture of a division                                     *)

\* the element of the picture at the k-th place of the template of a
\* division: label1, label2, label3, line1, bottom, right, the rectangle,
\* the split box, the answer box, the dividend and the divisor
DivElement(k) == picture[k]

\* C30: the picture of a division is sized with the number of digits of the
\* quotient of the instance generated for it: the height of label1, the
\* offset of label3, the width of the split box and of the answer box; this
\* also when the nbqdigits asked for is corrected by the generation.
C30_Claimed ==
    (pc = "drawn" /\ rec.kind = "Division")
    => LET q == DigitCount(NumeralValue(At(ret.Solution, 2)))
           wide == IF rec.nbdrdigits < q THEN q ELSE rec.nbdrdigits
       IN  /\ DivElement(1).at.ycm = 100 + 200 * q + 50
           /\ DivElement(3).at.xw = 50 * (2 + wide)
           /\ DivElement(8).width = 100 * (2 + wide)
           /\ DivElement(9).width = 100 * (2 + wide)

\* the record GetTikZPicture holds is not changed by the generation
C30_RecordUnchanged == [][rec' = rec]_vars

\* when the nbqdigits asked for needs no correction, the picture is sized
\* with the digits of the quotient generated
C30_InRange ==
    (rec.kind = "Division" /\ rec.nbqdigits >= rec.nbdvdigits - rec.nbdrdigits
        /\ rec.nbqdigits <= rec.nbdvdigits - rec.nbdrdigits + 1)
    => C30_Claimed

=============================================================================
